---- MODULE Spec2Model ----
(***************************************************************************)
(* Model of the region registry of the climate-data project: the Region    *)
(* dataclass (regions.py), the DataSet construction passes (dataset.py),   *)
(* the rankings, averages and correlation reports of FinalReport           *)
(* (final_report.py), the Regression methods (regression.py), the Plots    *)
(* entry points (plots.py), and the MenuManager with its callbacks and     *)
(* event loop (menu.py) as main.py drives them.                            *)
(*                                                                         *)
(* Representation:                                                         *)
(*   - None is the empty tuple <<>>.                                       *)
(*   - a number is a reduced fraction <<num, den>> with den > 0. The       *)
(*     rounding of float operations is modelled in regression.py, where    *)
(*     the outcome depends on it; the quotients of dataset.py are exact.   *)
(*   - an optional string (continent) is <<s>> or None.                    *)
(*   - a Dict[int, float] series is a function whose DOMAIN is its key set.*)
(*   - the registry Dict[str, Region] is a sequence of <<key, Region>>     *)
(*     pairs in insertion order (Python dicts iterate in insertion order). *)
(***************************************************************************)
EXTENDS Integers, Sequences, FiniteSets, TLC

VARIABLES
    pc,        \* the statement of DataSet.__init__ about to run, or "done"
    exc,       \* the exception that ended the construction ("" when none)
    regions,   \* DataSet.regions
    tweets,    \* DataSet.tweets
    files,     \* the contents of the files under data/
    args,      \* arguments of the call under check
    ret,       \* its result
    menus,     \* the MenuManager of main.py (None before it is built)
    events     \* the events of the call of MenuManager.loop in progress

vars == <<pc, exc, regions, tweets, files, args, ret, menus, events>>

None == <<>>

Str(s) == <<s>>

(* a list: its items are values once it is built *)
List(items) == SubSeq(items, 1, Len(items))

(* a list is a value by the time a loop iteration starts from it *)
IsList(items) == Len(items) >= 0

(* range(1, n + 1) *)
Indices(n) == [k \in 1..n |-> k]

-----------------------------------------------------------------------------
(* Numbers *)

Num(n) == <<n, 1>>

Abs(n) == IF n < 0 THEN -n ELSE n

RECURSIVE GCD(_, _)
GCD(a, b) == IF b = 0 THEN a ELSE GCD(b, a % b)

Norm(n, d) ==
    LET s == IF d < 0 THEN -1 ELSE 1
        g == GCD(Abs(n), Abs(d))
    IN  <<(s * n) \div g, (s * d) \div g>>

IsZero(a) == a[1] = 0

Div(a, b) == Norm(a[1] * b[2], a[2] * b[1])

Mul(a, b) == Norm(a[1] * b[1], a[2] * b[2])

Less(a, b) == a[1] * b[2] < b[1] * a[2]

SetMin(S) == CHOOSE x \in S : \A y \in S : x <= y

Max(a, b) == IF a >= b THEN a ELSE b

-----------------------------------------------------------------------------
(* Python dict keyed by strings, in insertion order *)

KeySeq(d) == [i \in 1..Len(d) |-> d[i][1]]

KeySet(d) == {d[i][1] : i \in 1..Len(d)}

IndexOf(d, k) == CHOOSE i \in 1..Len(d) : d[i][1] = k

GetItem(d, k) == d[IndexOf(d, k)][2]

SetItem(d, k, v) ==
    IF k \in KeySet(d) THEN [d EXCEPT ![IndexOf(d, k)] = <<k, v>>]
    ELSE Append(d, <<k, v>>)

DelItem(d, k) == SelectSeq(d, LAMBDA e : e[1] # k)

(* Python dict keyed by years: s[year] = value *)
SeriesSet(s, year, value) ==
    [k \in DOMAIN s \cup {year} |-> IF k = year THEN value ELSE s[k]]

-----------------------------------------------------------------------------
(* regions.py *)

FirstYear == 1951

LastYear == 2016

(* variant: the series start at 0 instead of None *)
defualt_dict_zero == [year \in FirstYear..LastYear |-> Num(0)]

defualt_dict == [year \in FirstYear..LastYear |-> None]

RegionDefaults ==
    [continent |-> None,
     population |-> defualt_dict,
     has_carbon_tax |-> FALSE,
     co2_emissions |-> defualt_dict,
     co2_emissions_per_capita |-> defualt_dict,
     gdp |-> defualt_dict,
     gdp_per_capita |-> defualt_dict,
     renewable_energy |-> defualt_dict,
     renewable_energy_per_capita |-> defualt_dict,
     projected_damage |-> None,
     percentage_concerned |-> None,
     region_score |-> None]

(* Region(name=..., **kwargs): a field not passed takes its default *)
Region(name, kwargs) ==
    [f \in {"name"} \cup DOMAIN RegionDefaults |->
        IF f = "name" THEN name
        ELSE IF f \in DOMAIN kwargs THEN kwargs[f]
        ELSE RegionDefaults[f]]

-----------------------------------------------------------------------------
(* dataset.py *)

COUNTRIES_WITH_CARBON_TAX ==
    <<"Argentina", "Canada", "Chile", "Colombia",
      "Denmark", "Estonia", "Finland",
      "France", "Iceland", "Ireland",
      "Japan", "Latvia", "Liechtenstein",
      "Mexico", "Norway", "Poland", "Portugal",
      "Singapore", "Slovenia", "South Africa",
      "Spain", "Sweden", "Switzerland", "United Kingdom", "Ukraine">>

UK_LONG == "United Kingdom of Great Britain & Northern Ireland"

US_LONG == "United States of America"

(* parse_csv_line: the line is given as its fields, quotes removed and split *)
(* on commas; Python's line[2], line[0] are fields 3 and 1 here.             *)
parse_csv_line(line) == <<line[3], line[1]>>

(* variant: the data of an unregistered name creates its region *)
RECURSIVE RegisterAll(_, _)
RegisterAll(regs, names) ==
    IF names = {} THEN regs
    ELSE LET name == CHOOSE n \in names : TRUE
         IN  RegisterAll(Append(regs, <<name, Region(name, <<>>)>>), names \ {name})

(* the loop over data[1:] of initialise_regions: self.regions[name] = region *)
(* leaves a name at the place of its first line with the Region of its    *)
(* last one                                                               *)
CreateRegions(regs, data, i) ==
    LET parsed == List([k \in 1..(Len(data) - i + 1) |->
                           parse_csv_line(data[k + i - 1])])
        last(name) == CHOOSE k \in 1..Len(parsed) :
                          /\ parsed[k][1] = name
                          /\ \A j \in (k + 1)..Len(parsed) : parsed[j][1] # name
        item(k) == <<parsed[k][1],
                     Region(parsed[k][1], [continent |-> Str(parsed[k][2])])>>
        first == SelectSeq(Indices(Len(parsed)),
                           LAMBDA k : /\ parsed[k][1] \notin KeySet(regs)
                                      /\ \A j \in 1..(k - 1) :
                                             parsed[j][1] # parsed[k][1])
    IN  List([n \in 1..Len(regs) |->
                 IF \E k \in 1..Len(parsed) : parsed[k][1] = regs[n][1]
                 THEN item(last(regs[n][1]))
                 ELSE regs[n]]
             \o [n \in 1..Len(first) |-> item(last(parsed[first[n]][1]))])

(* x = d[old]; del d[old]; d[new] = x *)
Rename(regs, old, new) == SetItem(DelItem(regs, old), new, GetItem(regs, old))

(* initialise_regions: [regions, exc] *)
initialise_regions(regs, data) ==
    LET created == CreateRegions(regs, data, 2)
    IN  IF UK_LONG \notin KeySet(created)
        THEN [regions |-> created, exc |-> "KeyError"]
        ELSE LET uk == Rename(created, UK_LONG, "United Kingdom")
             IN  IF US_LONG \notin KeySet(uk)
                 THEN [regions |-> uk, exc |-> "KeyError"]
                 ELSE [regions |-> Rename(uk, US_LONG, "United States"),
                       exc |-> ""]

(* variant: the loop without the test on the year *)
RECURSIVE MergeLinesAnyYear(_, _, _, _)
MergeLinesAnyYear(series, data, key, i) ==
    IF i > Len(data) THEN series
    ELSE LET line == data[i]
         IN  MergeLinesAnyYear(
                 IF key \in DOMAIN line
                 THEN SeriesSet(series, line["year"], line[key])
                 ELSE series,
                 data, key, i + 1)

(* the loop over data_set[region]['data'] of the three passes over *)
(* CO2_emissions.json; key is 'co2', 'gdp' or 'population'         *)
RECURSIVE MergeLines(_, _, _, _)
MergeLines(series, data, key, i) ==
    IF i > Len(data) THEN series
    ELSE LET line == data[i]
         IN  MergeLines(
                 IF FirstYear <= line["year"] /\ line["year"] <= LastYear
                    /\ key \in DOMAIN line
                 THEN SeriesSet(series, line["year"], line[key])
                 ELSE series,
                 data, key, i + 1)

MergeJsonRegistering(regs, data_set, key, attr) ==
    LET all == RegisterAll(regs, DOMAIN data_set \ KeySet(regs))
    IN  [i \in 1..Len(all) |->
            LET region == all[i][1]
            IN  IF region \notin DOMAIN data_set THEN all[i]
                ELSE <<region,
                       [all[i][2] EXCEPT
                           ![attr] = MergeLines(@, data_set[region]["data"], key, 1)]>>]

MergeJson(regs, data_set, key, attr) ==
    [i \in 1..Len(regs) |->
        LET region == regs[i][1]
        IN  IF region \notin DOMAIN data_set THEN regs[i]
            ELSE <<region,
                   [regs[i][2] EXCEPT
                       ![attr] = MergeLines(@, data_set[region]["data"], key, 1)]>>]

initialise_co2_emissions(regs, data_set) ==
    MergeJson(regs, data_set, "co2", "co2_emissions")

initialise_gdp(regs, data_set) == MergeJson(regs, data_set, "gdp", "gdp")

initialise_population(regs, data_set) ==
    MergeJson(regs, data_set, "population", "population")

(* variant: the loop stops one year early, range(start_year, 2016) *)
LoopYearsShort(region, base) ==
    IF DOMAIN region["population"] = {} \/ DOMAIN region[base] = {} THEN {}
    ELSE Max(SetMin(DOMAIN region["population"]),
             SetMin(DOMAIN region[base])) .. LastYear - 1

(* One region of a per-capita pass (base is "gdp", "co2_emissions" or   *)
(* "renewable_energy"): the years the loop visits, range(start_year, 2017) *)
LoopYears(region, base) ==
    IF DOMAIN region["population"] = {} \/ DOMAIN region[base] = {} THEN {}
    ELSE Max(SetMin(DOMAIN region["population"]),
             SetMin(DOMAIN region[base])) .. LastYear

(* the exception the loop body raises at this year, "" when none *)
RaisedAt(region, base, year) ==
    IF year \notin DOMAIN region[base] THEN "KeyError"
    ELSE IF region[base][year] = None THEN ""
    ELSE IF year \notin DOMAIN region["population"] THEN "KeyError"
    ELSE IF region["population"][year] = None THEN ""
    ELSE IF IsZero(region["population"][year]) THEN "ZeroDivisionError"
    ELSE ""

RaisingYears(region, base) ==
    {y \in LoopYears(region, base) : RaisedAt(region, base, y) # ""}

(* variant: the quotient is also stored in the base series *)
DeriveUpToInPlace(region, base, derived, last) ==
    LET written == {y \in LoopYears(region, base) :
                        /\ y <= last
                        /\ region[base][y] # None
                        /\ region["population"][y] # None}
        quotients == [k \in written |->
                         Div(region[base][k], region["population"][k])]
    IN  [region EXCEPT
            ![derived] = [k \in DOMAIN @ \cup written |->
                             IF k \in written THEN quotients[k] ELSE @[k]],
            ![base] = [k \in DOMAIN @ |->
                          IF k \in written THEN quotients[k] ELSE @[k]]]

(* the loop body run for the years up to last (none raising) *)
DeriveUpTo(region, base, derived, last) ==
    LET written == {y \in LoopYears(region, base) :
                        /\ y <= last
                        /\ region[base][y] # None
                        /\ region["population"][y] # None}
    IN  [region EXCEPT ![derived] =
            [k \in DOMAIN @ \cup written |->
                IF k \in written
                THEN Div(region[base][k], region["population"][k])
                ELSE @[k]]]

(* a per-capita pass over the registry: [regions, exc]. The pass stops at *)
(* the first region and year whose body raises; what it wrote stays.      *)
PerCapita(regs, base, derived) ==
    LET bad == {i \in 1..Len(regs) : RaisingYears(regs[i][2], base) # {}}
    IN  IF bad = {}
        THEN [regions |->
                 [i \in 1..Len(regs) |->
                     <<regs[i][1],
                       DeriveUpTo(regs[i][2], base, derived, LastYear)>>],
              exc |-> ""]
        ELSE LET stop == SetMin(bad)
                 year == SetMin(RaisingYears(regs[stop][2], base))
             IN  [regions |->
                     [i \in 1..Len(regs) |->
                         IF i < stop
                         THEN <<regs[i][1],
                                DeriveUpTo(regs[i][2], base, derived, LastYear)>>
                         ELSE IF i = stop
                         THEN <<regs[i][1],
                                DeriveUpTo(regs[i][2], base, derived, year - 1)>>
                         ELSE regs[i]],
                  exc |-> RaisedAt(regs[stop][2], base, year)]

initialise_gdp_per_capita(regs) == PerCapita(regs, "gdp", "gdp_per_capita")

initialise_co2_emissions_per_capita(regs) ==
    PerCapita(regs, "co2_emissions", "co2_emissions_per_capita")

initialise_renewables_per_capita(regs) ==
    PerCapita(regs, "renewable_energy", "renewable_energy_per_capita")

(* energy_production. A line of the CSV is given as its 20 fields (split  *)
(* on commas), Python's line[i] being field i + 1; a cell is given by its *)
(* content with the spaces removed: None for "", else the number float()  *)
(* reads.                                                                 *)
EnergyHeaderLines == 9

(* variant: the names of the energy file are taken as they are *)
EnergyRegionAsIs(line) == line[2]

EnergyRegion(line) ==
    IF line[2] = "USA" THEN "United States"
    ELSE IF line[2] = "UK" THEN "United Kingdom"
    ELSE line[2]

(* variant: a year that already has a value keeps it *)
EnergyCellsKeeping(series, line, i) ==
    LET written == {1997 + j : j \in {j \in i..19 : /\ line[j + 1] # None
                                                      /\ series[1997 + j] = None}}
    IN  [year \in DOMAIN series \cup written |->
            IF year \in written THEN line[year - 1997 + 1] ELSE series[year]]

(* variant: a blank cell is stored as 0 *)
EnergyCellsBlankAsZero(series, line, i) ==
    LET written == {1997 + j : j \in i..19}
    IN  [year \in DOMAIN series \cup written |->
            IF year \notin written THEN series[year]
            ELSE IF line[year - 1997 + 1] # None THEN line[year - 1997 + 1]
            ELSE Num(0)]

(* the loop over range(i, 20) on one line: the cells that are not blank *)
(* are stored, each under its own year                                  *)
EnergyCells(series, line, i) ==
    LET written == {1997 + j : j \in {j \in i..19 : line[j + 1] # None}}
    IN  [year \in DOMAIN series \cup written |->
            IF year \in written THEN line[year - 1997 + 1] ELSE series[year]]

(* the loop over data[9:], lines lo..hi: each line is applied in turn to *)
(* the registry before it. The lines are taken by halves, the first half *)
(* before the second, which is the same sequence of rounds               *)
RECURSIVE EnergyLinesTo(_, _, _, _)
EnergyLinesTo(regs, data, lo, hi) ==
    IF ~IsList(regs) \/ lo > hi THEN regs
    ELSE IF lo < hi
    THEN EnergyLinesTo(EnergyLinesTo(regs, data, lo, (lo + hi) \div 2),
                       data, (lo + hi) \div 2 + 1, hi)
    ELSE IF EnergyRegion(data[lo]) \notin KeySet(regs) THEN regs
    ELSE [regs EXCEPT ![IndexOf(regs, EnergyRegion(data[lo]))][2]["renewable_energy"] =
              EnergyCells(@, data[lo], 3)]

EnergyLines(regs, data, n) == EnergyLinesTo(regs, data, n, Len(data))

energy_production(regs, data) == EnergyLines(regs, data, EnergyHeaderLines + 1)

(* variant: a country of the list that is not registered is skipped *)
RECURSIVE CarbonTaxSkipping(_, _)
CarbonTaxSkipping(regs, n) ==
    IF n > Len(COUNTRIES_WITH_CARBON_TAX) THEN [regions |-> regs, exc |-> ""]
    ELSE LET country == COUNTRIES_WITH_CARBON_TAX[n]
         IN  CarbonTaxSkipping(
                 IF country \notin KeySet(regs) THEN regs
                 ELSE [regs EXCEPT ![IndexOf(regs, country)][2]["has_carbon_tax"] = TRUE],
                 n + 1)

(* variant: every region of the registry is flagged *)
CarbonTaxOfAll(regs, n) ==
    [regions |-> [i \in 1..Len(regs) |->
                     <<regs[i][1], [regs[i][2] EXCEPT !["has_carbon_tax"] = TRUE]>>],
     exc |-> ""]

(* initialise_carbon_tax: [regions, exc]; the countries before the first *)
(* unregistered one are flagged before the KeyError                      *)
RECURSIVE CarbonTax(_, _)
CarbonTax(regs, n) ==
    IF n > Len(COUNTRIES_WITH_CARBON_TAX) THEN [regions |-> regs, exc |-> ""]
    ELSE LET country == COUNTRIES_WITH_CARBON_TAX[n]
         IN  IF country \notin KeySet(regs)
             THEN [regions |-> regs, exc |-> "KeyError"]
             ELSE CarbonTax(
                      [regs EXCEPT ![IndexOf(regs, country)][2]["has_carbon_tax"] = TRUE],
                      n + 1)

initialise_carbon_tax(regs) == CarbonTax(regs, 1)

(* initialise_projected_damage. A line is given as its tab-separated     *)
(* fields, the last one as the number float() reads: [regions, exc]      *)
RECURSIVE ProjectedDamage(_, _, _)
ProjectedDamage(regs, data, n) ==
    IF n > Len(data) THEN [regions |-> regs, exc |-> ""]
    ELSE LET line == data[n]
             value == line[Len(line)]
         IN  IF line[1] \in KeySet(regs)
             THEN ProjectedDamage(
                      [regs EXCEPT ![IndexOf(regs, line[1])][2]["projected_damage"] = value],
                      data, n + 1)
             ELSE IF line[1] = US_LONG
             THEN IF "United States" \notin KeySet(regs)
                  THEN [regions |-> regs, exc |-> "KeyError"]
                  ELSE ProjectedDamage(
                           [regs EXCEPT ![IndexOf(regs, "United States")][2]["projected_damage"] = value],
                           data, n + 1)
             ELSE ProjectedDamage(regs, data, n + 1)

initialise_projected_damage(regs, data) == ProjectedDamage(regs, data, 2)

(* initialise_climate_opinion. A line is given as its tab-separated      *)
(* fields, the second one as the number int(line[1][:-2]) reads          *)
OpinionConcerned(regs, key, value) ==
    [regs EXCEPT ![IndexOf(regs, key)][2]["percentage_concerned"] = value]

RECURSIVE ClimateOpinion(_, _, _)
ClimateOpinion(regs, data, n) ==
    IF n > Len(data) THEN [regions |-> regs, exc |-> ""]
    ELSE LET line == data[n]
         IN  IF line[1] \in KeySet(regs)
             THEN ClimateOpinion(OpinionConcerned(regs, line[1], line[2]),
                                 data, n + 1)
             ELSE IF line[1] = "U.S."
             THEN IF "United States" \notin KeySet(regs)
                  THEN [regions |-> regs, exc |-> "KeyError"]
                  ELSE ClimateOpinion(
                           OpinionConcerned(regs, "United States", line[2]),
                           data, n + 1)
             ELSE IF line[1] = "UK"
             THEN IF "United Kingdom" \notin KeySet(regs)
                  THEN [regions |-> regs, exc |-> "KeyError"]
                  ELSE ClimateOpinion(
                           OpinionConcerned(regs, "United Kingdom", line[2]),
                           data, n + 1)
             ELSE ClimateOpinion(regs, data, n + 1)

initialise_climate_opinion(regs, data) == ClimateOpinion(regs, data, 1)

(* initialise_region_score: [regions, exc]. The pass stops at the first *)
(* region whose division raises; the regions before it are scored.      *)
ScoreRaises(region) ==
    /\ region["renewable_energy"][LastYear] # None
    /\ region["co2_emissions"][LastYear] # None
    /\ IsZero(region["co2_emissions"][LastYear])

(* variant: the carbon tax gives no bonus *)
ScoredWithoutBonus(region) ==
    LET renewable == region["renewable_energy"][LastYear]
        emission == region["co2_emissions"][LastYear]
    IN  IF renewable = None \/ emission = None THEN region
        ELSE [region EXCEPT !["region_score"] = Div(renewable, emission)]

Scored(region) ==
    LET renewable == region["renewable_energy"][LastYear]
        emission == region["co2_emissions"][LastYear]
    IN  IF renewable = None \/ emission = None THEN region
        ELSE LET score == Div(renewable, emission)
             IN  [region EXCEPT !["region_score"] =
                     IF region["has_carbon_tax"] THEN Mul(score, Num(10))
                     ELSE score]

initialise_region_score(regs) ==
    LET bad == {i \in 1..Len(regs) : ScoreRaises(regs[i][2])}
        stop == IF bad = {} THEN Len(regs) + 1 ELSE SetMin(bad)
    IN  [regions |->
             [i \in 1..Len(regs) |->
                 IF i < stop THEN <<regs[i][1], Scored(regs[i][2])>>
                 ELSE regs[i]],
         exc |-> IF bad = {} THEN "" ELSE "ZeroDivisionError"]

(* get_tweet_data: a line of Climate_Tweets.txt is given as the dict eval *)
(* reads; the Tweet keeps the text of the original of a retweet          *)
Tweet(tweet_json) ==
    [text |-> IF "retweeted_status" \in DOMAIN tweet_json
              THEN tweet_json["retweeted_status"]
              ELSE tweet_json["full_text"],
     user |-> tweet_json["user"]]

get_tweet_data(tw, data) == tw \o [n \in 1..Len(data) |-> Tweet(data[n])]

-----------------------------------------------------------------------------
(* final_report.py *)

TopK == 10

InsertAt(list, i, e) == SubSeq(list, 1, i - 1) \o <<e>> \o SubSeq(list, i, Len(list))

(* variant: the comparison of the inner loop is <= *)
FirstLowerOrEqual(top10, value) ==
    LET lower == {i \in 1..TopK : ~Less(value, top10[i][2])}
    IN  IF lower = {} THEN 0 ELSE SetMin(lower)

(* the inner loop: the first i in range(10) with top10[i][1] < value *)
FirstLower(top10, value) ==
    LET lower == {i \in 1..TopK : Less(top10[i][2], value)}
    IN  IF lower = {} THEN 0 ELSE SetMin(lower)

(* the loop over the registry: values[n] is the score of the n-th region, *)
(* None when absent; a leader is <<Str(name), score>>, a placeholder      *)
(* <<None, 0>>                                                            *)
RECURSIVE Leaders(_, _, _, _)
Leaders(top10, regs, values, n) ==
    IF IsList(top10) /\ n > Len(regs) THEN top10
    ELSE LET i == FirstLower(top10, values[n])
         IN  Leaders(
                 IF values[n] = None \/ i = 0 THEN top10
                 ELSE SubSeq(InsertAt(top10, i, <<Str(regs[n][1]), values[n]>>),
                             1, TopK),
                 regs, values, n + 1)

Top10Names(regs, values) ==
    LET top10 == Leaders([i \in 1..TopK |-> <<None, Num(0)>>], regs, values, 1)
    IN  [i \in 1..Len(top10) |-> top10[i][1]]

largest_co2(regs) ==
    Top10Names(regs, [n \in 1..Len(regs) |-> regs[n][2]["co2_emissions"][LastYear]])

greatest_help(regs) ==
    Top10Names(regs, [n \in 1..Len(regs) |-> regs[n][2]["region_score"]])

-----------------------------------------------------------------------------
(* regression.py. The samples are lists of floats. A float is a rational    *)
(* m * 2^e whose significand m has at most Precision bits (53 in Python,    *)
(* scaled down here); the exponent is unbounded. Every arithmetic operation *)
(* of the code gives the exact result rounded to the nearest float, ties to *)
(* even. ** 2 is taken as the correctly rounded square.                     *)

Precision == 4

Neg(a) == <<-a[1], a[2]>>

Add(a, b) ==
    LET g == GCD(a[2], b[2])
    IN  Norm(a[1] * (b[2] \div g) + b[1] * (a[2] \div g), (a[2] \div g) * b[2])

Sub(a, b) == Add(a, Neg(b))

(* the float nearest to n / d, for n > 0 and d > 0: the quotient is scaled *)
(* by the power of two that leaves Precision bits before the point, and   *)
(* rounded to the nearest integer, a tie going to the even one            *)
HalfEven(n, d) ==
    LET m == n \div d
        r == n - m * d
    IN  IF 2 * r > d \/ (2 * r = d /\ m % 2 = 1) THEN m + 1 ELSE m

Scaled(n, d, up, down) == Norm(HalfEven(n * 2^down, d * 2^up) * 2^up, 2^down)

Nearest(n, d) ==
    Scaled(n, d, CHOOSE e \in 0..31 : n < d * 2^(Precision + e),
                 CHOOSE e \in 0..31 : n * 2^e >= d * 2^(Precision - 1))

Signed(n, a) == IF n < 0 THEN Neg(a) ELSE a

Float(q) == IF q[1] = 0 THEN Num(0) ELSE Signed(q[1], Nearest(Abs(q[1]), q[2]))

(* a + b, a - b, a * b, a / b and a ** 2 on floats. The operands of an     *)
(* operation are values before it starts: the test on them makes the      *)
(* evaluation compute them first (an operand here is never None)          *)
FAdd(a, b) == IF None \in {a, b} THEN None ELSE Float(Add(a, b))

FSub(a, b) == IF None \in {a, b} THEN None ELSE Float(Sub(a, b))

FMul(a, b) == IF None \in {a, b} THEN None ELSE Float(Mul(a, b))

FDiv(a, b) == IF None \in {a, b} THEN None ELSE Float(Div(a, b))

Square(a) == FMul(a, a)

(* total += term. The total of a loop is a value before the term is added *)
(* to it: the test on it makes the evaluation compute it first (a total   *)
(* is never None), so that the evaluation of a long loop stays shallow    *)
AddTo(total, term) == IF total = None THEN None ELSE FAdd(total, term)

(* the same on numbers that are not rounded *)
Plus(total, term) == IF total = None THEN None ELSE Add(total, term)

(* what a call ends with: the value it returns, or the exception it raises *)
(* and the function whose statement raised it                              *)
Value(v) == [value |-> v, exc |-> "", raised_in |-> ""]

Raise(exception, function) == [value |-> None, exc |-> exception, raised_in |-> function]

(* the total of a loop after the rounds lo..hi: each term is added in turn *)
(* to the total before it. The rounds are taken by halves, the first half  *)
(* before the second, which is the same sequence of additions              *)
RECURSIVE SumFrom(_, _, _, _)
SumFrom(total, terms, lo, hi) ==
    IF total = None \/ lo > hi THEN total
    ELSE IF lo = hi THEN AddTo(total, terms[lo])
    ELSE SumFrom(SumFrom(total, terms, lo, (lo + hi) \div 2),
                 terms, (lo + hi) \div 2 + 1, hi)

(* the same on numbers that are not rounded *)
RECURSIVE TotalFrom(_, _, _, _)
TotalFrom(total, terms, lo, hi) ==
    IF total = None \/ lo > hi THEN total
    ELSE IF lo = hi THEN Plus(total, terms[lo])
    ELSE TotalFrom(TotalFrom(total, terms, lo, (lo + hi) \div 2),
                   terms, (lo + hi) \div 2 + 1, hi)

(* sum(values): the first n values added from left to right, starting at 0 *)
Sum(values, n) == SumFrom(Num(0), values, 1, n)

(* variant: the mean of no values is 0 *)
mean_or_zero(values) ==
    IF Len(values) = 0 THEN Value(Num(0))
    ELSE Value(FDiv(Sum(values, Len(values)), Num(Len(values))))

(* variant: a mean that depends on what the previous call returned *)
mean_remembering(values) ==
    IF Len(values) = 0 THEN Raise("ZeroDivisionError", "mean")
    ELSE IF ret # <<>> /\ ret.call = "mean" /\ ret.result.exc = "" THEN ret.result
    ELSE Value(FDiv(Sum(values, Len(values)), Num(Len(values))))

mean(values) ==
    IF Len(values) = 0 THEN Raise("ZeroDivisionError", "mean")
    ELSE Value(FDiv(Sum(values, Len(values)), Num(Len(values))))

(* the loop of linear_regression, after n rounds *)
Numerator(x_values, y_values, x_mean, y_mean, n) ==
    Sum(List([k \in 1..n |-> FMul(FSub(x_values[k], x_mean),
                                  FSub(y_values[k], y_mean))]), n)

Denominator(x_values, x_mean, n) ==
    Sum(List([k \in 1..n |-> Square(FSub(x_values[k], x_mean))]), n)

(* variant: the quotient the other way round *)
SlopeInverted(numerator, denominator) ==
    IF IsZero(numerator) THEN Num(0) ELSE FDiv(denominator, numerator)

Slope(numerator, denominator) == FDiv(numerator, denominator)

Intercept(slope, x_mean, y_mean) == FSub(y_mean, FMul(slope, x_mean))

(* linear_regression from its slope, from the sums of its loop and from *)
(* the two means                                                        *)
LineOfSlope(slope, x_mean, y_mean) ==
    Value(<<slope, Intercept(slope, x_mean, y_mean)>>)

LineOfSums(numerator, denominator, x_mean, y_mean) ==
    IF IsZero(denominator)
    THEN Raise("ZeroDivisionError", "linear_regression")
    ELSE LineOfSlope(Slope(numerator, denominator), x_mean, y_mean)

LineOfMeans(x_values, y_values, x_mean, y_mean) ==
    IF x_mean.exc # "" THEN x_mean
    ELSE IF y_mean.exc # "" THEN y_mean
    ELSE LineOfSums(Numerator(x_values, y_values, x_mean.value, y_mean.value,
                              Len(x_values)),
                    Denominator(x_values, x_mean.value, Len(x_values)),
                    x_mean.value, y_mean.value)

linear_regression(x_values, y_values) ==
    LineOfMeans(x_values, y_values, mean(x_values), mean(y_values))

(* the loop of strength_of_correlation, after n rounds *)
STot(y_values, y_mean, n) ==
    Sum(List([k \in 1..n |-> Square(FSub(y_values[k], y_mean))]), n)

SRes(slope, intercept, x_values, y_values, n) ==
    Sum(List([k \in 1..n |->
                 Square(FSub(y_values[k],
                             FAdd(intercept, FMul(slope, x_values[k]))))]), n)

(* strength_of_correlation from the sums of its loop and from the mean *)
StrengthOfSums(s_tot, s_res) ==
    IF IsZero(s_tot)
    THEN Raise("ZeroDivisionError", "strength_of_correlation")
    ELSE Value(FSub(Num(1), FDiv(s_res, s_tot)))

StrengthOfMean(slope, intercept, x_values, y_values, y_mean) ==
    IF y_mean.exc # "" THEN y_mean
    ELSE StrengthOfSums(STot(y_values, y_mean.value, Len(y_values)),
                        SRes(slope, intercept, x_values, y_values, Len(y_values)))

strength_of_correlation(slope, intercept, x_values, y_values) ==
    StrengthOfMean(slope, intercept, x_values, y_values, mean(y_values))

-----------------------------------------------------------------------------
(* final_report.py, the strings and the correlation reports. str and round *)
(* give decimal text: a number is printed by its digits.                   *)

DigitChars == <<"0", "1", "2", "3", "4", "5", "6", "7", "8", "9">>

RECURSIVE StrNat(_)
StrNat(n) ==
    IF n < 10 THEN DigitChars[n + 1]
    ELSE StrNat(n \div 10) \o DigitChars[(n % 10) + 1]

(* str of an int *)
StrInt(n) == IF n < 0 THEN "-" \o StrNat(-n) ELSE StrNat(n)

(* round(q): the nearest integer, a tie going to the even one *)
Round(q) ==
    LET floor == q[1] \div q[2]
        twice == 2 * (q[1] - floor * q[2])
    IN  IF twice < q[2] THEN floor
        ELSE IF twice > q[2] THEN floor + 1
        ELSE IF floor % 2 = 0 THEN floor
        ELSE floor + 1

(* str(round(q, 3)): q in thousandths, printed without trailing zeros but *)
(* with one decimal at least; a negative q that rounds to zero keeps its  *)
(* sign                                                                   *)
StrRound3(q) ==
    LET thousandths == Round(Mul(q, Num(1000)))
        magnitude == Abs(thousandths)
        decimals == magnitude % 1000
        sign == IF q[1] < 0 THEN "-" ELSE ""
    IN  sign \o StrNat(magnitude \div 1000) \o "." \o
        (IF decimals % 100 = 0 THEN DigitChars[(decimals \div 100) + 1]
         ELSE IF decimals % 10 = 0
         THEN DigitChars[(decimals \div 100) + 1]
              \o DigitChars[((decimals \div 10) % 10) + 1]
         ELSE DigitChars[(decimals \div 100) + 1]
              \o DigitChars[((decimals \div 10) % 10) + 1]
              \o DigitChars[(decimals % 10) + 1])

(* ", ".join(names) of names that are all strings *)
RECURSIVE Join(_, _)
Join(names, n) ==
    IF n = 0 THEN ""
    ELSE IF n = 1 THEN names[1][1]
    ELSE Join(names, n - 1) \o ", " \o names[n][1]

(* ", ".join raises TypeError on an item that is None *)
JoinNames(names, function) ==
    IF \E n \in 1..Len(names) : names[n] = None
    THEN Raise("TypeError", function)
    ELSE Value(Join(names, Len(names)))

most_contributing_regions(regs) ==
    JoinNames(largest_co2(regs), "most_contributing_regions")

most_helpful_regions(regs) ==
    JoinNames(greatest_help(regs), "most_helpful_regions")

(* total after the first n names of the loop, every one present *)
RECURSIVE TotalGdp(_, _, _)
TotalGdp(regs, names, n) ==
    IF n = 0 THEN Num(0)
    ELSE Plus(TotalGdp(regs, names, n - 1),
              GetItem(regs, names[n][1])["gdp"][LastYear])

(* average_gdp_contributing_regions: self.regions[None] raises KeyError, *)
(* total += None raises TypeError; the loop stops at the first of them   *)
average_gdp_contributing_regions(regs) ==
    LET names == largest_co2(regs)
        bad == {n \in 1..Len(names) :
                   \/ names[n] = None
                   \/ GetItem(regs, names[n][1])["gdp"][LastYear] = None}
    IN  IF bad # {}
        THEN Raise(IF names[SetMin(bad)] = None THEN "KeyError" ELSE "TypeError",
                   "average_gdp_contributing_regions")
        ELSE Value(StrInt(Round(Div(TotalGdp(regs, names, Len(names)),
                                    Num(10)))))

RECURSIVE TotalDamage(_, _, _)
TotalDamage(regs, names, n) ==
    IF n = 0 THEN Num(0)
    ELSE LET projected_damage == GetItem(regs, names[n][1])["projected_damage"]
         IN  IF projected_damage = None THEN TotalDamage(regs, names, n - 1)
             ELSE Plus(TotalDamage(regs, names, n - 1), projected_damage)

average_damage_helping_regions(regs) ==
    LET names == greatest_help(regs)
    IN  IF \E n \in 1..Len(names) : names[n] = None
        THEN Raise("KeyError", "average_damage_helping_regions")
        ELSE Value(StrRound3(Div(TotalDamage(regs, names, Len(names)), Num(10))))

(* The correlation reports. A report gathers, in registry order, the pairs *)
(* of the regions where both values are present, fits a line and shows it. *)
(* What a report reads of a region: the x is percentage_concerned,         *)
(* projected_damage or gdp_per_capita[2016]; the y is a series at 2016, or *)
(* 1 or 0 for has_carbon_tax.                                              *)
ReportValue(region, attr) ==
    IF attr = "has_carbon_tax"
    THEN (IF region[attr] THEN Num(1) ELSE Num(0))
    ELSE IF attr \in {"percentage_concerned", "projected_damage"} THEN region[attr]
    ELSE region[attr][LastYear]

(* the loop of a report over the registry: the regions with both values *)
ReportPairs(regs, x_attr, y_attr) ==
    LET kept == SelectSeq(Indices(Len(regs)),
                          LAMBDA n : /\ ReportValue(regs[n][2], x_attr) # None
                                     /\ ReportValue(regs[n][2], y_attr) # None)
    IN  [x_values |-> List([k \in 1..Len(kept) |->
                               ReportValue(regs[kept[k]][2], x_attr)]),
         y_values |-> List([k \in 1..Len(kept) |->
                               ReportValue(regs[kept[k]][2], y_attr)])]

(* the figures of a report: <<slope, intercept, r_squared>> of each fit. *)
(* The lines are fitted first, then the strengths computed, as the code  *)
(* does; the first call that raises ends the report.                     *)
FirstRaised(outcomes) ==
    outcomes[SetMin({k \in 1..Len(outcomes) : outcomes[k].exc # ""})]

AllReturned(outcomes) == \A k \in 1..Len(outcomes) : outcomes[k].exc = ""

Figures(lines, strengths) ==
    IF ~AllReturned(strengths) THEN FirstRaised(strengths)
    ELSE Value([k \in 1..Len(lines) |->
                   <<lines[k].value[1], lines[k].value[2], strengths[k].value>>])

Strengths(samples, lines) ==
    List([k \in 1..Len(samples) |->
             strength_of_correlation(lines[k].value[1], lines[k].value[2],
                                     samples[k].x_values, samples[k].y_values)])

FitsOfLines(samples, lines) ==
    IF ~AllReturned(lines) THEN FirstRaised(lines)
    ELSE Figures(lines, Strengths(samples, lines))

Fits(samples) ==
    FitsOfLines(samples,
                List([k \in 1..Len(samples) |->
                         linear_regression(samples[k].x_values,
                                           samples[k].y_values)]))

denial_and_emissions(regs) ==
    Fits(<<ReportPairs(regs, "percentage_concerned", "co2_emissions"),
           ReportPairs(regs, "percentage_concerned", "co2_emissions_per_capita")>>)

denial_and_energy_production(regs) ==
    Fits(<<ReportPairs(regs, "percentage_concerned", "renewable_energy")>>)

denial_and_carbon_tax(regs) ==
    Fits(<<ReportPairs(regs, "percentage_concerned", "has_carbon_tax")>>)

gdp_per_capita_and_emissions(regs) ==
    Fits(<<ReportPairs(regs, "gdp_per_capita", "co2_emissions"),
           ReportPairs(regs, "gdp_per_capita", "co2_emissions_per_capita")>>)

gdp_per_capita_and_carbon_taxes(regs) ==
    Fits(<<ReportPairs(regs, "gdp_per_capita", "has_carbon_tax")>>)

damage_and_emissions(regs) ==
    Fits(<<ReportPairs(regs, "projected_damage", "co2_emissions"),
           ReportPairs(regs, "projected_damage", "co2_emissions_per_capita")>>)

(* location_and_emissions: the table of the average emissions of 2016 per *)
(* continent, in the order of the dict of the code; a continent outside   *)
(* the dict raises KeyError                                               *)
ContinentNames ==
    <<"North America", "South America", "Africa", "Asia", "Oceania", "Europe",
      "Antarctica">>

RECURSIVE ContinentTotal(_, _, _)
ContinentTotal(regs, continent, n) ==
    IF n = 0 THEN Num(0)
    ELSE IF regs[n][2]["continent"] = Str(continent)
            /\ regs[n][2]["co2_emissions"][LastYear] # None
    THEN Plus(ContinentTotal(regs, continent, n - 1),
              regs[n][2]["co2_emissions"][LastYear])
    ELSE ContinentTotal(regs, continent, n - 1)

location_and_emissions(regs) ==
    LET counted == {n \in 1..Len(regs) : regs[n][2]["co2_emissions"][LastYear] # None}
        amount(continent) ==
            Cardinality({n \in counted : regs[n][2]["continent"] = Str(continent)})
        shown == SelectSeq(ContinentNames, LAMBDA continent : amount(continent) # 0)
    IN  IF \E n \in counted :
               \A k \in 1..Len(ContinentNames) :
                   regs[n][2]["continent"] # Str(ContinentNames[k])
        THEN Raise("KeyError", "location_and_emissions")
        ELSE Value([k \in 1..Len(shown) |->
                       <<shown[k],
                         Div(ContinentTotal(regs, shown[k], Len(regs)),
                             Num(amount(shown[k])))>>])

-----------------------------------------------------------------------------
(* plots.py. A figure is what linear_plot shows: the points, the labels   *)
(* and the fitted line; the text of its title is not modelled.            *)

(* {year: year for year in range(1951, 2017)} *)
YearValues == [year \in FirstYear..LastYear |-> Num(year)]

(* range(1951, 2017) *)
Years == List([n \in 1..(LastYear - FirstYear + 1) |-> FirstYear + n - 1])

(* the lists a loop over the years appends to, for the years it keeps *)
Appended(x_values, y_values, kept) ==
    [x_values |-> List([n \in 1..Len(kept) |-> x_values[kept[n]]]),
     y_values |-> List([n \in 1..Len(kept) |-> y_values[kept[n]]])]

(* variant: the loop over the years stops one year early *)
clean_time_data_short(x_values, y_values) ==
    Appended(x_values, y_values,
             SelectSeq(Years, LAMBDA year : /\ year < LastYear
                                           /\ x_values[year] # None
                                           /\ y_values[year] # None))

(* clean_time_data: the loop over the years keeps those where both values *)
(* are present                                                           *)
clean_time_data(x_values, y_values) ==
    Appended(x_values, y_values,
             SelectSeq(Years, LAMBDA year : /\ x_values[year] # None
                                           /\ y_values[year] # None))

(* final_over_all_regions: the loop over the registry keeps the regions *)
(* where both values of the last year are present                      *)
final_over_all_regions(regs, x_var, y_var) ==
    LET kept == SelectSeq(Indices(Len(regs)),
                          LAMBDA n : /\ regs[n][2][x_var][LastYear] # None
                                     /\ regs[n][2][y_var][LastYear] # None)
    IN  [x_values |-> List([k \in 1..Len(kept) |-> regs[kept[k]][2][x_var][LastYear]]),
         y_values |-> List([k \in 1..Len(kept) |-> regs[kept[k]][2][y_var][LastYear]])]

(* total and amount of a year after the first n regions: the values that *)
(* are present are added in the order of the registry                    *)
YearTotal(regs, var, year, n) ==
    LET kept == SelectSeq(Indices(n), LAMBDA k : regs[k][2][var][year] # None)
    IN  [total |-> TotalFrom(Num(0),
                             List([k \in 1..Len(kept) |-> regs[kept[k]][2][var][year]]),
                             1, Len(kept)),
         amount |-> Len(kept)]

(* variant: a region without a value counts as 0 *)
average_with_zeros(regs, var) ==
    [year \in FirstYear..LastYear |->
        IF Len(regs) = 0 THEN None
        ELSE Div(YearTotal(regs, var, year, Len(regs)).total, Num(Len(regs)))]

average_all_regions_over_time(regs, var) ==
    [year \in FirstYear..LastYear |->
        LET sums == YearTotal(regs, var, year, Len(regs))
        IN  IF sums.amount = 0 THEN None
            ELSE Div(sums.total, Num(sums.amount))]

(* linear_plot: the figure shown, or the exception of the regression *)
Figure(fit, x_values, y_values, x_var, y_var, region_name) ==
    IF fit.exc # "" THEN fit
    ELSE Value([x_values |-> x_values, y_values |-> y_values,
                x_var |-> x_var, y_var |-> y_var, region_name |-> region_name,
                slope |-> fit.value[1][1], intercept |-> fit.value[1][2],
                r_squared |-> fit.value[1][3]])

linear_plot(x_values, y_values, x_var, y_var, region_name) ==
    Figure(Fits(<<[x_values |-> x_values, y_values |-> y_values]>>),
           x_values, y_values, x_var, y_var, region_name)

(* the three guarded entry points: nothing is shown for an empty sample *)
PlotCleaned(cleaned, x_var, y_var, region_name) ==
    IF Len(cleaned.x_values) # 0 /\ Len(cleaned.y_values) # 0
    THEN linear_plot(cleaned.x_values, cleaned.y_values, x_var, y_var, region_name)
    ELSE Value(None)

in_region_over_time(region, y_var) ==
    PlotCleaned(clean_time_data(YearValues, region[y_var]),
                "year", y_var, region["name"])

in_region(region, x_var, y_var) ==
    PlotCleaned(clean_time_data(region[x_var], region[y_var]),
                x_var, y_var, region["name"])

all_regions_over_time(regs, y_var) ==
    PlotCleaned(clean_time_data(YearValues, average_all_regions_over_time(regs, y_var)),
                "year", y_var, "Global")

all_regions(regs, x_var, y_var) ==
    LET final == final_over_all_regions(regs, x_var, y_var)
    IN  linear_plot(final.x_values, final.y_values, x_var, y_var, "Global")

-----------------------------------------------------------------------------
(* The files under data/: the inputs of the construction *)

MaxLines == 2

(* the sequences over S of length at most n *)
RECURSIVE SeqsUpTo(_, _)
SeqsUpTo(S, n) ==
    IF n = 0 THEN {<<>>}
    ELSE LET shorter == SeqsUpTo(S, n - 1)
         IN  shorter \cup {Append(q, x) : q \in shorter, x \in S}

(* data/country_names.csv: a header line, then <Continent>,<Code>,<Name>,... *)
CountryRows ==
    <<<<"South America", "SA", "Argentina">>,
      <<"North America", "NA", "Canada">>,
      <<"South America", "SA", "Chile">>,
      <<"Asia", "AS", "China", " People's Republic of">>,
      <<"South America", "SA", "Colombia">>,
      <<"Europe", "EU", "Denmark">>,
      <<"Europe", "EU", "Estonia">>,
      <<"Europe", "EU", "Finland">>,
      <<"Europe", "EU", "France">>,
      <<"Europe", "EU", "Iceland">>,
      <<"Asia", "AS", "India">>,
      <<"Europe", "EU", "Ireland">>,
      <<"Asia", "AS", "Japan">>,
      <<"Europe", "EU", "Latvia">>,
      <<"Europe", "EU", "Liechtenstein">>,
      <<"North America", "NA", "Mexico">>,
      <<"Europe", "EU", "Norway">>,
      <<"Europe", "EU", "Poland">>,
      <<"Europe", "EU", "Portugal">>,
      <<"Asia", "AS", "Singapore">>,
      <<"Europe", "EU", "Slovenia">>,
      <<"Africa", "AF", "South Africa">>,
      <<"Europe", "EU", "Spain">>,
      <<"Europe", "EU", "Sweden">>,
      <<"Europe", "EU", "Switzerland">>,
      <<"Europe", "EU", "Ukraine">>,
      <<"Europe", "EU", UK_LONG>>,
      <<"North America", "NA", US_LONG>>>>

CountryHeader == <<"Continent_Name", "Continent_Code", "Country_Name">>

(* the whole list, and the list with one of these countries missing *)
MissingCountries == {UK_LONG, US_LONG, "Ukraine", "India"}

CountryFiles ==
    {<<CountryHeader>> \o CountryRows}
    \cup {<<CountryHeader>> \o SelectSeq(CountryRows, LAMBDA row : row[3] # name) :
             name \in MissingCountries}

(* data/CO2_emissions.json: {name: {'data': [{'year': ..., 'co2': ..., *)
(* 'gdp': ..., 'population': ...}, ...]}}, a key of a line being optional *)
In2016(co2, gdp, population) ==
    [data |-> <<[year |-> LastYear, co2 |-> Num(co2), gdp |-> Num(gdp),
                 population |-> Num(population)]>>]

BaseJson ==
    [Canada |-> In2016(5, 40, 4),
     China |-> In2016(12, 60, 30),
     India |->
        [data |-> <<[year |-> FirstYear, co2 |-> Num(1), population |-> Num(3)],
                    [year |-> 2000, co2 |-> Num(50), population |-> Num(100)],
                    [year |-> 2001, population |-> Num(200)],
                    [year |-> LastYear, co2 |-> Num(9), gdp |-> Num(30),
                     population |-> Num(30)]>>],
     France |-> In2016(4, 36, 6),
     Japan |-> In2016(8, 50, 10),
     Mexico |-> In2016(5, 20, 10),
     Norway |-> In2016(2, 10, 1),
     Poland |-> In2016(4, 12, 4),
     Spain |-> In2016(3, 18, 5),
     Sweden |-> In2016(1, 11, 1),
     Chile |-> In2016(2, 6, 2),
     World |-> In2016(90, 900, 300)]

SmallJson ==
    [Canada |-> In2016(5, 40, 4),
     Poland |-> In2016(4, 12, 4),
     World |-> In2016(90, 900, 300)]

JsonNames == {"United States", "USA", US_LONG, "Ukraine"}

JsonLines ==
    {[year |-> LastYear, co2 |-> Num(0), gdp |-> Num(7), population |-> Num(5)],
     [year |-> LastYear, co2 |-> Num(6), gdp |-> Num(20), population |-> Num(0)],
     [year |-> FirstYear - 1, co2 |-> Num(3), gdp |-> Num(3), population |-> Num(3)],
     [year |-> LastYear + 1, co2 |-> Num(3), gdp |-> Num(3), population |-> Num(3)]}

WithEntry(data_set, name, lines) ==
    [k \in DOMAIN data_set \cup {name} |->
        IF k = name THEN [data |-> lines] ELSE data_set[k]]

DefaultJson == WithEntry(BaseJson, "United States", In2016(10, 100, 20)["data"])

(* a large or a small data set, with the lines of one more name *)
JsonFiles ==
    {WithEntry(base, name, lines) :
        base \in {BaseJson, SmallJson}, name \in JsonNames,
        lines \in SeqsUpTo(JsonLines, MaxLines)}

(* data/IRENA_RE_electricity_statistics_-_Query_tool.csv: 9 header lines, *)
(* then lines whose field 1 is the region and fields 3..19 the cells of   *)
(* the years 2000..2016                                                   *)
EnergyLine(region, cells) ==
    [j \in 1..20 |->
        IF j = 2 THEN region
        ELSE IF j - 1 \in DOMAIN cells THEN cells[j - 1]
        ELSE IF j >= 4 THEN None
        ELSE ""]

EnergyHeader == [n \in 1..EnergyHeaderLines |-> <<"IRENA">>]

BaseEnergy ==
    << EnergyLine("Canada", (19 :> Num(10))),
       EnergyLine("China", (19 :> Num(6))),
       EnergyLine("India", (19 :> Num(3))),
       EnergyLine("France", (19 :> Num(2))),
       EnergyLine("Japan", (19 :> Num(4))),
       EnergyLine("Mexico", (19 :> Num(1))),
       EnergyLine("Norway", (19 :> Num(3))),
       EnergyLine("Poland", (19 :> Num(0))),
       EnergyLine("Spain", (19 :> Num(3))),
       EnergyLine("Sweden", (19 :> Num(2))),
       EnergyLine("Chile", (19 :> Num(1))),
       EnergyLine("World", (19 :> Num(50))) >>

EnergyVarLines ==
    {EnergyLine("USA", (19 :> Num(10))),
     EnergyLine("USA", (3 :> Num(4)) @@ (19 :> Num(0))),
     EnergyLine(US_LONG, (19 :> Num(7))),
     EnergyLine("United States", (18 :> Num(5)) @@ (19 :> Num(8))),
     EnergyLine("UK", (19 :> Num(9)))}

DefaultEnergy ==
    EnergyHeader \o BaseEnergy \o <<EnergyLine("USA", (19 :> Num(10)))>>

EnergyFiles ==
    {EnergyHeader \o BaseEnergy \o lines :
        lines \in SeqsUpTo(EnergyVarLines, MaxLines)}

(* data/projected_GDP_change.txt: a header line, then lines of tab-separated *)
(* fields, the first the name and the last the projected change             *)
DamageHeader == <<"Country", "Change">>

DamageVarLines ==
    {<<US_LONG, "2100", <<-1, 2>>>>,
     <<"USA", "2100", Num(3)>>,
     <<"Canada", "2100", Num(2)>>}

DefaultDamage ==
    <<DamageHeader, <<"Canada", "2100", Num(1)>>, <<"India", "2100", Num(-9)>>,
      <<US_LONG, "2100", Num(-1)>>>>

DamageFiles ==
    {<<DamageHeader>> \o lines : lines \in SeqsUpTo(DamageVarLines, MaxLines)}

(* data/climate_change_opinion_by_country.txt: lines of tab-separated *)
(* fields, the name and the percentage                               *)
OpinionVarLines ==
    {<<"U.S.", Num(45)>>, <<"UK", Num(41)>>, <<"Canada", Num(51)>>,
     <<"Global median", Num(54)>>}

DefaultOpinion == <<<<"Canada", Num(51)>>, <<"U.S.", Num(45)>>>>

OpinionFiles == SeqsUpTo(OpinionVarLines, MaxLines)

(* data/Climate_Tweets.txt *)
TweetVarLines ==
    {[full_text |-> "climate", user |-> "a"],
     [full_text |-> "RT climat", user |-> "b", retweeted_status |-> "climate"]}

DefaultTweets == <<[full_text |-> "climate", user |-> "a"]>>

TweetFiles == SeqsUpTo(TweetVarLines, MaxLines)

DefaultFiles ==
    [country_names |-> <<CountryHeader>> \o CountryRows,
     co2_emissions |-> DefaultJson,
     energy |-> DefaultEnergy,
     projected_damage |-> DefaultDamage,
     opinion |-> DefaultOpinion,
     tweets |-> DefaultTweets]

(* one file varies, the others are the default ones *)
InputFiles ==
    {[DefaultFiles EXCEPT !["country_names"] = f] : f \in CountryFiles}
    \cup {[DefaultFiles EXCEPT !["co2_emissions"] = f] : f \in JsonFiles}
    \cup {[DefaultFiles EXCEPT !["energy"] = f] : f \in EnergyFiles}
    \cup {[DefaultFiles EXCEPT !["projected_damage"] = f] : f \in DamageFiles}
    \cup {[DefaultFiles EXCEPT !["opinion"] = f] : f \in OpinionFiles}
    \cup {[DefaultFiles EXCEPT !["tweets"] = f] : f \in TweetFiles}

-----------------------------------------------------------------------------
(* DataSet.__init__ *)

(* variant: the population is merged after the first per-capita pass *)
StatementsDerivingEarly ==
    <<"initialise_regions", "initialise_co2_emissions", "initialise_gdp",
      "energy_production", "initialise_gdp_per_capita",
      "initialise_population", "initialise_co2_emissions_per_capita",
      "initialise_renewables_per_capita", "initialise_carbon_tax",
      "initialise_projected_damage", "initialise_climate_opinion",
      "initialise_region_score", "get_tweet_data", "done">>

Statements ==
    <<"initialise_regions", "initialise_co2_emissions", "initialise_gdp",
      "energy_production", "initialise_population",
      "initialise_gdp_per_capita", "initialise_co2_emissions_per_capita",
      "initialise_renewables_per_capita", "initialise_carbon_tax",
      "initialise_projected_damage", "initialise_climate_opinion",
      "initialise_region_score", "get_tweet_data", "done">>

Position(statement) == CHOOSE n \in 1..Len(Statements) : Statements[n] = statement

After(statement) == Statements[Position(statement) + 1]

Init ==
    /\ pc = "initialise_regions"
    /\ exc = ""
    /\ regions = <<>>
    /\ tweets = <<>>
    /\ files \in InputFiles
    /\ args = <<>>
    /\ ret = <<>>
    /\ menus = <<>>
    /\ events = <<>>

(* a statement that returns goes on to the next one; one that raises ends *)
(* the construction there (exc # ""), with what it wrote so far           *)
Run(statement, result) ==
    /\ pc = statement
    /\ exc = ""
    /\ regions' = result.regions
    /\ exc' = result.exc
    /\ pc' = IF result.exc = "" THEN After(statement) ELSE pc
    /\ UNCHANGED <<tweets, files, args, ret, menus, events>>

Returns(regs) == [regions |-> regs, exc |-> ""]

InitialiseRegions ==
    Run("initialise_regions", initialise_regions(regions, files["country_names"]))

InitialiseCo2Emissions ==
    Run("initialise_co2_emissions",
        Returns(initialise_co2_emissions(regions, files["co2_emissions"])))

InitialiseGdp ==
    Run("initialise_gdp", Returns(initialise_gdp(regions, files["co2_emissions"])))

EnergyProduction ==
    Run("energy_production", Returns(energy_production(regions, files["energy"])))

InitialisePopulation ==
    Run("initialise_population",
        Returns(initialise_population(regions, files["co2_emissions"])))

InitialiseGdpPerCapita ==
    Run("initialise_gdp_per_capita", initialise_gdp_per_capita(regions))

InitialiseCo2EmissionsPerCapita ==
    Run("initialise_co2_emissions_per_capita",
        initialise_co2_emissions_per_capita(regions))

InitialiseRenewablesPerCapita ==
    Run("initialise_renewables_per_capita",
        initialise_renewables_per_capita(regions))

InitialiseCarbonTax == Run("initialise_carbon_tax", initialise_carbon_tax(regions))

InitialiseProjectedDamage ==
    Run("initialise_projected_damage",
        initialise_projected_damage(regions, files["projected_damage"]))

InitialiseClimateOpinion ==
    Run("initialise_climate_opinion",
        initialise_climate_opinion(regions, files["opinion"]))

InitialiseRegionScore ==
    Run("initialise_region_score", initialise_region_score(regions))

GetTweetData ==
    /\ pc = "get_tweet_data"
    /\ tweets' = get_tweet_data(tweets, files["tweets"])
    /\ pc' = "done"
    /\ UNCHANGED <<exc, regions, files, args, ret, menus, events>>

(* FinalReport on the constructed DataSet *)
LargestCo2 ==
    /\ pc = "done"
    /\ args' = <<"largest_co2">>
    /\ ret' = largest_co2(regions)
    /\ UNCHANGED <<pc, exc, regions, tweets, files, menus, events>>

GreatestHelp ==
    /\ pc = "done"
    /\ args' = <<"greatest_help">>
    /\ ret' = greatest_help(regions)
    /\ UNCHANGED <<pc, exc, regions, tweets, files, menus, events>>

Next ==
    \/ InitialiseRegions
    \/ InitialiseCo2Emissions
    \/ InitialiseGdp
    \/ EnergyProduction
    \/ InitialisePopulation
    \/ InitialiseGdpPerCapita
    \/ InitialiseCo2EmissionsPerCapita
    \/ InitialiseRenewablesPerCapita
    \/ InitialiseCarbonTax
    \/ InitialiseProjectedDamage
    \/ InitialiseClimateOpinion
    \/ InitialiseRegionScore
    \/ GetTweetData
    \/ LargestCo2
    \/ GreatestHelp

Spec == Init /\ [][Next]_vars

-----------------------------------------------------------------------------
(* The Region constructor on its own *)

Continents ==
    {"Africa", "Antarctica", "Asia", "Europe", "North America", "Oceania",
     "South America"}

RegionCalls ==
    {[name |-> CountryRows[n][3], kwargs |-> kwargs] :
        n \in 1..Len(CountryRows),
        kwargs \in {<<>>} \cup {[continent |-> Str(c)] : c \in Continents}}

InitRegion ==
    /\ pc = "Region"
    /\ exc = ""
    /\ regions = <<>>
    /\ tweets = <<>>
    /\ files = <<>>
    /\ args \in RegionCalls
    /\ ret = <<>>
    /\ menus = <<>>
    /\ events = <<>>

ConstructRegion ==
    /\ pc = "Region"
    /\ ret' = Region(args.name, args.kwargs)
    /\ pc' = "returned"
    /\ UNCHANGED <<exc, regions, tweets, files, args, menus, events>>

NextRegion == ConstructRegion

SpecRegion == InitRegion /\ [][NextRegion]_vars

-----------------------------------------------------------------------------
(* The Regression methods on their own: a caller holds two lists of equal *)
(* length and calls the methods on them in any order                      *)

MaxSample == 3

Points ==
    {<<Num(1), Num(2)>>, <<Num(2), Num(4)>>, <<Num(3), Num(6)>>,
     <<Num(7), Num(7)>>, <<Num(7), Num(4)>>,
     <<Num(11), Num(11)>>, <<Num(2), Num(11)>>}

Samples ==
    {[x_values |-> [i \in 1..Len(points) |-> points[i][1]],
      y_values |-> [i \in 1..Len(points) |-> points[i][2]]] :
        points \in SeqsUpTo(Points, MaxSample)}

(* the slope and intercept a caller passes besides those of a fit *)
Lines == {<<Num(2), Num(0)>>, <<Num(0), Num(7)>>}

Call(call, list, slope, intercept, result) ==
    [call |-> call, list |-> list, slope |-> slope, intercept |-> intercept,
     result |-> result]

InitRegression ==
    /\ pc = "Regression"
    /\ exc = ""
    /\ regions = initialise_regions(<<>>, DefaultFiles["country_names"]).regions
    /\ tweets = <<>>
    /\ files = <<>>
    /\ args \in Samples
    /\ ret = <<>>
    /\ menus = <<>>
    /\ events = <<>>

LinearRegression ==
    /\ pc = "Regression"
    /\ ret' = Call("linear_regression", "", None, None,
                   linear_regression(args.x_values, args.y_values))
    /\ UNCHANGED <<pc, exc, regions, tweets, files, args, menus, events>>

(* the line is the one the fit just returned, or one the caller chose *)
StrengthOfCorrelation ==
    /\ pc = "Regression"
    /\ \E line \in Lines \cup
                   (IF ret # <<>> /\ ret.call = "linear_regression"
                       /\ ret.result.exc = ""
                    THEN {ret.result.value} ELSE {}) :
           ret' = Call("strength_of_correlation", "", line[1], line[2],
                       strength_of_correlation(line[1], line[2],
                                               args.x_values, args.y_values))
    /\ UNCHANGED <<pc, exc, regions, tweets, files, args, menus, events>>

Mean ==
    /\ pc = "Regression"
    /\ \E list \in {"x_values", "y_values"} :
           ret' = Call("mean", list, None, None, mean(args[list]))
    /\ UNCHANGED <<pc, exc, regions, tweets, files, args, menus, events>>

NextRegression ==
    \/ LinearRegression
    \/ StrengthOfCorrelation
    \/ Mean

SpecRegression == InitRegression /\ [][NextRegression]_vars

-----------------------------------------------------------------------------
(* The Plots and FinalReport methods on their own: a caller constructs a *)
(* DataSet and calls one of the methods on its registry                  *)

(* the data set without one key in any line *)
Without(data_set, key) ==
    [name \in DOMAIN data_set |->
        [data |-> [n \in 1..Len(data_set[name]["data"]) |->
                      [f \in DOMAIN data_set[name]["data"][n] \ {key} |->
                          data_set[name]["data"][n][f]]]]]

ReportFiles ==
    {DefaultFiles,
     [DefaultFiles EXCEPT !["co2_emissions"] = Without(DefaultJson, "population")],
     [DefaultFiles EXCEPT !["co2_emissions"] = Without(DefaultJson, "gdp")],
     [DefaultFiles EXCEPT !["projected_damage"] =
         <<DamageHeader, <<"Canada", "2100", Num(2)>>,
           <<US_LONG, "2100", <<-1, 2>>>>>>]}

(* the regions and the variables a caller passes *)
PlottedRegions == {"Canada", "India", "United States", "Liechtenstein"}

Variables ==
    {"co2_emissions", "co2_emissions_per_capita", "gdp", "gdp_per_capita",
     "population", "renewable_energy", "renewable_energy_per_capita"}

InitPlots ==
    /\ pc = "initialise_regions"
    /\ exc = ""
    /\ regions = <<>>
    /\ tweets = <<>>
    /\ files \in ReportFiles
    /\ args = None
    /\ ret = None
    /\ menus = None
    /\ events = <<>>

(* a call on the constructed registry and what it returned or raised *)
Called(call, region, x_var, y_var, result) ==
    /\ pc = "done"
    /\ args = None
    /\ args' = [call |-> call, region |-> region, x_var |-> x_var, y_var |-> y_var]
    /\ ret' = result
    /\ UNCHANGED <<pc, exc, regions, tweets, files, menus, events>>

(* the x values of a plot within a region: the years, or a series of it *)
XValues(region, x_var) == IF x_var = "time" THEN YearValues ELSE region[x_var]

CleanTimeData ==
    \E name \in PlottedRegions \cap KeySet(regions) :
        \E x_var \in {"time"} \cup Variables : \E y_var \in Variables :
            Called("clean_time_data", name, x_var, y_var,
                   clean_time_data(XValues(GetItem(regions, name), x_var),
                                   GetItem(regions, name)[y_var]))

FinalOverAllRegions ==
    \E x_var \in Variables : \E y_var \in Variables :
        Called("final_over_all_regions", "", x_var, y_var,
               final_over_all_regions(regions, x_var, y_var))

AverageAllRegionsOverTime ==
    \E var \in Variables :
        Called("average_all_regions_over_time", "", "", var,
               average_all_regions_over_time(regions, var))

InRegionOverTime ==
    \E name \in PlottedRegions \cap KeySet(regions) : \E y_var \in Variables :
        Called("in_region_over_time", name, "time", y_var,
               in_region_over_time(GetItem(regions, name), y_var))

InRegion ==
    \E name \in PlottedRegions \cap KeySet(regions) :
        \E x_var \in Variables : \E y_var \in Variables :
            Called("in_region", name, x_var, y_var,
                   in_region(GetItem(regions, name), x_var, y_var))

AllRegionsOverTime ==
    \E y_var \in Variables :
        Called("all_regions_over_time", "", "time", y_var,
               all_regions_over_time(regions, y_var))

AllRegions ==
    \E x_var \in Variables : \E y_var \in Variables :
        Called("all_regions", "", x_var, y_var, all_regions(regions, x_var, y_var))

MostContributingRegions ==
    Called("most_contributing_regions", "", "", "", most_contributing_regions(regions))

AverageGdpContributingRegions ==
    Called("average_gdp_contributing_regions", "", "", "",
           average_gdp_contributing_regions(regions))

MostHelpfulRegions ==
    Called("most_helpful_regions", "", "", "", most_helpful_regions(regions))

AverageDamageHelpingRegions ==
    Called("average_damage_helping_regions", "", "", "",
           average_damage_helping_regions(regions))

DenialAndEmissions ==
    Called("denial_and_emissions", "", "", "", denial_and_emissions(regions))

DenialAndEnergyProduction ==
    Called("denial_and_energy_production", "", "", "",
           denial_and_energy_production(regions))

DenialAndCarbonTax ==
    Called("denial_and_carbon_tax", "", "", "", denial_and_carbon_tax(regions))

GdpPerCapitaAndEmissions ==
    Called("gdp_per_capita_and_emissions", "", "", "",
           gdp_per_capita_and_emissions(regions))

GdpPerCapitaAndCarbonTaxes ==
    Called("gdp_per_capita_and_carbon_taxes", "", "", "",
           gdp_per_capita_and_carbon_taxes(regions))

LocationAndEmissions ==
    Called("location_and_emissions", "", "", "", location_and_emissions(regions))

DamageAndEmissions ==
    Called("damage_and_emissions", "", "", "", damage_and_emissions(regions))

NextPlots ==
    \/ InitialiseRegions
    \/ InitialiseCo2Emissions
    \/ InitialiseGdp
    \/ EnergyProduction
    \/ InitialisePopulation
    \/ InitialiseGdpPerCapita
    \/ InitialiseCo2EmissionsPerCapita
    \/ InitialiseRenewablesPerCapita
    \/ InitialiseCarbonTax
    \/ InitialiseProjectedDamage
    \/ InitialiseClimateOpinion
    \/ InitialiseRegionScore
    \/ GetTweetData
    \/ CleanTimeData
    \/ FinalOverAllRegions
    \/ AverageAllRegionsOverTime
    \/ InRegionOverTime
    \/ InRegion
    \/ AllRegionsOverTime
    \/ AllRegions
    \/ MostContributingRegions
    \/ AverageGdpContributingRegions
    \/ MostHelpfulRegions
    \/ AverageDamageHelpingRegions
    \/ DenialAndEmissions
    \/ DenialAndEnergyProduction
    \/ DenialAndCarbonTax
    \/ GdpPerCapitaAndEmissions
    \/ GdpPerCapitaAndCarbonTaxes
    \/ LocationAndEmissions
    \/ DamageAndEmissions

SpecPlots == InitPlots /\ [][NextPlots]_vars

-----------------------------------------------------------------------------
(* menu.py and main.py: the MenuManager, its callbacks and the event loop. *)
(* pygame-menu is given by what the source registers with it: a menu is    *)
(* the values its labels show and the callbacks of its buttons and         *)
(* selectors, and an event names the callback that Menu.update runs for    *)
(* it. The Sampled Tweets page and the label and the button of the final   *)
(* report that read the tweets are left out.                               *)

OptionsY ==
    <<"co2_emissions", "co2_emissions_per_capita", "gdp", "gdp_per_capita",
      "population", "renewable_energy", "renewable_energy_per_capita">>

OptionsX == <<"time">> \o OptionsY

(* variant: the default region is the alias "USA", which is never a key *)
DefaultsUSA ==
    [is_at_region_menu |-> FALSE,
     chosen_x_values |-> "time",
     chosen_y_values |-> "co2_emissions",
     chose_local |-> <<FALSE, "USA">>]

(* the defaults of the correlation finder *)
Defaults ==
    [is_at_region_menu |-> FALSE,
     chosen_x_values |-> "time",
     chosen_y_values |-> "co2_emissions",
     chose_local |-> <<FALSE, "Canada">>]

(* the labels of initialise_final_menus that are computed from the registry *)
FinalLabels(regs) ==
    List(<<most_contributing_regions(regs),
           average_gdp_contributing_regions(regs),
           most_helpful_regions(regs),
           average_damage_helping_regions(regs)>>)

(* initialise_regions_menu: a button per key of the registry *)
RegionButtons(regs) == [n \in 1..Len(regs) |-> regs[n][1]]

(* MenuManager.__init__: the defaults, then initialise_menus; a label that *)
(* raises ends the construction                                            *)
MenuManagerOf(regs, defaults, labels) ==
    IF ~AllReturned(labels)
    THEN [self |-> None, exc |-> FirstRaised(labels).exc]
    ELSE [self |-> [is_at_region_menu |-> defaults.is_at_region_menu,
                    chosen_x_values |-> defaults.chosen_x_values,
                    chosen_y_values |-> defaults.chosen_y_values,
                    chose_local |-> defaults.chose_local,
                    final_labels |-> [k \in 1..Len(labels) |-> labels[k].value],
                    regions_menu |-> RegionButtons(regs),
                    region_menu |-> None],
          exc |-> ""]

MenuManager(regs) == MenuManagerOf(regs, Defaults, FinalLabels(regs))

(* what a callback leaves behind: the MenuManager, the registry, the       *)
(* exception it raised, the callbacks run and the figures shown so far     *)
World(self, regs) ==
    [self |-> self, regions |-> regs, exc |-> "", ran |-> <<>>, shown |-> <<>>]

Raised(world, exception) == [world EXCEPT !.exc = exception]

(* the eight labels of the region menu, by the value each one shows *)
RegionLabels(region) ==
    <<region["continent"], region["gdp_per_capita"][LastYear],
      region["has_carbon_tax"], region["co2_emissions"][LastYear],
      region["renewable_energy"][LastYear], region["projected_damage"],
      region["percentage_concerned"], region["region_score"]>>

(* the first label is "Continent: " + region.continent, a TypeError when *)
(* the continent is None; the new menu is already assigned by then       *)
RegionMenuOf(world, value, region) ==
    IF region["continent"] = None
    THEN Raised([world EXCEPT !.self.region_menu =
                    [title |-> value, labels |-> <<>>, buttons |-> <<>>]],
                "TypeError")
    ELSE [world EXCEPT
             !.self.region_menu =
                 [title |-> value, labels |-> RegionLabels(region),
                  buttons |-> <<value>>],
             !.self.is_at_region_menu = TRUE]

(* variant: a region menu that writes the name it was opened with into the *)
(* region it shows                                                         *)
create_region_menu_naming(world, value) ==
    RegionMenuOf([world EXCEPT
                     !.regions[IndexOf(world.regions, value)][2]["name"] = value],
                 value, GetItem(world.regions, value))

create_region_menu(world, value) ==
    IF value \notin KeySet(world.regions)
    THEN Raised(world, "KeyError")
    ELSE RegionMenuOf(world, value, GetItem(world.regions, value))

choose_region(self, value) ==
    [self EXCEPT !.chose_local = <<self.chose_local[1], value>>]

(* variant: closing the region menu leaves the flag as it is *)
quit_region_menu_staying(self) == self

quit_region_menu(self) == [self EXCEPT !.is_at_region_menu = FALSE]

(* the selectors pass the selected item as a tuple *)
change_x_values(self, value) == [self EXCEPT !.chosen_x_values = value[1]]

change_y_values(self, value) == [self EXCEPT !.chosen_y_values = value[1]]

change_location(self, value) ==
    IF value[1] = "local"
    THEN [self EXCEPT !.chose_local = <<TRUE, self.chose_local[2]>>]
    ELSE [self EXCEPT !.chose_local = <<FALSE, self.chose_local[2]>>]

(* create_plot in local mode, on the region looked up in the registry *)
LocalPlot(region, x_values, y_values) ==
    IF x_values = "time"
    THEN in_region_over_time(region, y_values)
    ELSE in_region(region, x_values, y_values)

GlobalPlot(regs, x_values, y_values) ==
    IF x_values = "time"
    THEN all_regions_over_time(regs, y_values)
    ELSE all_regions(regs, x_values, y_values)

create_plot(self, regs) ==
    IF self.chose_local[1]
    THEN IF self.chose_local[2] \notin KeySet(regs)
         THEN Raise("KeyError", "create_plot")
         ELSE LocalPlot(GetItem(regs, self.chose_local[2]),
                        self.chosen_x_values, self.chosen_y_values)
    ELSE GlobalPlot(regs, self.chosen_x_values, self.chosen_y_values)

(* a callback that shows a figure, or nothing when the sample is empty *)
Shown(world, callback, outcome) ==
    IF outcome.exc # "" THEN Raised(world, outcome.exc)
    ELSE IF outcome.value = None THEN world
    ELSE [world EXCEPT !.shown = Append(@, callback)]

With(world, self) == [world EXCEPT !.self = self]

(* the buttons of the three pages of the final report *)
ReportButtons ==
    {"denial_and_emissions", "denial_and_energy_production",
     "denial_and_carbon_tax", "gdp_per_capita_and_emissions",
     "gdp_per_capita_and_carbon_taxes", "location_and_emissions",
     "damage_and_emissions"}

Report(callback, regs) ==
    CASE callback = "denial_and_emissions" -> denial_and_emissions(regs)
      [] callback = "denial_and_energy_production" ->
             denial_and_energy_production(regs)
      [] callback = "denial_and_carbon_tax" -> denial_and_carbon_tax(regs)
      [] callback = "gdp_per_capita_and_emissions" ->
             gdp_per_capita_and_emissions(regs)
      [] callback = "gdp_per_capita_and_carbon_taxes" ->
             gdp_per_capita_and_carbon_taxes(regs)
      [] callback = "location_and_emissions" -> location_and_emissions(regs)
      [] callback = "damage_and_emissions" -> damage_and_emissions(regs)

(* the widgets of the region menu: the "Choose Region" button and onclose *)
RegionMenuCallbacks == {"choose_region", "quit_region_menu"}

(* the widgets reached from the main menu *)
MainMenuCallbacks ==
    {"create_region_menu", "change_x_values", "change_y_values",
     "change_location", "create_plot"} \cup ReportButtons

(* the callback of the event belongs to a widget of the menu updated: a *)
(* region button exists per registry key, a selector has its items      *)
HasWidget(self, event) ==
    IF self.is_at_region_menu
    THEN /\ event.callback \in RegionMenuCallbacks
         /\ event.callback = "choose_region" =>
                self.region_menu.buttons # <<>>
    ELSE /\ event.callback \in MainMenuCallbacks
         /\ event.callback = "create_region_menu" =>
                \E n \in 1..Len(self.regions_menu) :
                    self.regions_menu[n] = event.item
         /\ event.callback = "change_x_values" =>
                \E n \in 1..Len(OptionsX) : OptionsX[n] = event.item
         /\ event.callback = "change_y_values" =>
                \E n \in 1..Len(OptionsY) : OptionsY[n] = event.item
         /\ event.callback = "change_location" =>
                event.item \in {"global", "local"}

(* the callback run with the argument its widget was given *)
Callback(world, event) ==
    CASE event.callback = "create_region_menu" ->
             create_region_menu(world, event.item)
      [] event.callback = "choose_region" ->
             With(world, choose_region(world.self,
                                       world.self.region_menu.buttons[1]))
      [] event.callback = "quit_region_menu" ->
             With(world, quit_region_menu(world.self))
      [] event.callback = "change_x_values" ->
             With(world, change_x_values(world.self, <<event.item>>))
      [] event.callback = "change_y_values" ->
             With(world, change_y_values(world.self, <<event.item>>))
      [] event.callback = "change_location" ->
             With(world, change_location(world.self, <<event.item>>))
      [] event.callback = "create_plot" ->
             Shown(world, "create_plot", create_plot(world.self, world.regions))
      [] event.callback \in ReportButtons ->
             Shown(world, event.callback, Report(event.callback, world.regions))

Logged(world, callback) == [world EXCEPT !.ran = Append(@, callback)]

(* self.region_menu.update(events) or self.main_menu.update(events); the *)
(* attribute region_menu does not exist before create_region_menu        *)
Update(world, event) ==
    IF world.self.is_at_region_menu /\ world.self.region_menu = None
    THEN Raised(world, "AttributeError")
    ELSE IF HasWidget(world.self, event)
    THEN Callback(Logged(world, event.callback), event)
    ELSE world

(* MenuManager.loop from its n-th event on: True at a QUIT event, None *)
(* after the last event                                                *)
RECURSIVE LoopFrom(_, _, _)
LoopAfter(after, evs, n) ==
    IF after.exc # ""
    THEN [world |-> after, value |-> None]
    ELSE LoopFrom(after, evs, n + 1)

LoopFrom(world, evs, n) ==
    IF n > Len(evs) THEN [world |-> world, value |-> None]
    ELSE IF evs[n].type = "QUIT" THEN [world |-> world, value |-> <<TRUE>>]
    ELSE LoopAfter(Update(world, evs[n]), evs, n)

loop(self, regs, evs) == LoopFrom(World(self, regs), evs, 1)

-----------------------------------------------------------------------------
(* main.py: the DataSet, the MenuManager, then loop until it returns True *)

MenuFiles ==
    {DefaultFiles,
     [DefaultFiles EXCEPT !["co2_emissions"] = Without(DefaultJson, "population")],
     [DefaultFiles EXCEPT !["co2_emissions"] = Without(DefaultJson, "gdp")],
     [DefaultFiles EXCEPT !["country_names"] =
         <<CountryHeader>> \o SelectSeq(CountryRows, LAMBDA row : row[3] # "Canada")]}

Quit == [type |-> "QUIT", callback |-> "", item |-> ""]

Input(callback, item) == [type |-> "INPUT", callback |-> callback, item |-> item]

(* an event on a region button, a selector item or a button *)
Inputs ==
    {Input("create_region_menu", key) : key \in {"Canada", "United States"}}
    \cup {Input("change_x_values", item) : item \in {"time", "population"}}
    \cup {Input("change_y_values", item) : item \in {"co2_emissions", "gdp"}}
    \cup {Input("change_location", item) : item \in {"global", "local"}}
    \cup {Input(callback, "") :
             callback \in {"create_plot", "choose_region", "quit_region_menu"}
                          \cup ReportButtons}

(* what pygame.event.get() returns: nothing, one event, or two events of *)
(* which the first opens, uses or leaves the region menu                 *)
EventLists ==
    {<<>>, <<Quit>>}
    \cup {<<event>> : event \in Inputs}
    \cup {<<first, second>> :
             first \in {Input("create_region_menu", "Canada"),
                        Input("choose_region", ""),
                        Input("quit_region_menu", ""),
                        Input("change_location", "local")},
             second \in {Quit, Input("choose_region", ""),
                         Input("quit_region_menu", ""),
                         Input("create_plot", "")}}

InitMenu ==
    /\ pc = "initialise_regions"
    /\ exc = ""
    /\ regions = <<>>
    /\ tweets = <<>>
    /\ files \in MenuFiles
    /\ args = None
    /\ ret = None
    /\ menus = None
    /\ events = <<>>

(* menus = MenuManager(data_set) *)
Built(made) ==
    /\ menus' = made.self
    /\ exc' = made.exc
    /\ pc' = IF made.exc = "" THEN "main" ELSE pc

NewMenuManager ==
    /\ pc = "done"
    /\ exc = ""
    /\ Built(MenuManager(regions))
    /\ UNCHANGED <<regions, tweets, files, args, ret, events>>

(* is_done = menus.loop(), up to events = pygame.event.get() *)
EventGet ==
    /\ pc = "main"
    /\ \E evs \in EventLists : events' = evs
    /\ pc' = "loop"
    /\ ret' = None
    /\ UNCHANGED <<exc, regions, tweets, files, args, menus>>

(* the for loop of MenuManager.loop and its return; main leaves its while *)
(* loop when the call returns True                                        *)
Returned(result) ==
    /\ menus' = result.world.self
    /\ regions' = result.world.regions
    /\ exc' = result.world.exc
    /\ ret' = [value |-> result.value, ran |-> result.world.ran,
               shown |-> result.world.shown]
    /\ pc' = IF result.world.exc # "" THEN pc
             ELSE IF result.value = <<TRUE>> THEN "exit" ELSE "main"

Loop ==
    /\ pc = "loop"
    /\ exc = ""
    /\ Returned(loop(menus, regions, events))
    /\ UNCHANGED <<tweets, files, args, events>>

NextMenu ==
    \/ InitialiseRegions
    \/ InitialiseCo2Emissions
    \/ InitialiseGdp
    \/ EnergyProduction
    \/ InitialisePopulation
    \/ InitialiseGdpPerCapita
    \/ InitialiseCo2EmissionsPerCapita
    \/ InitialiseRenewablesPerCapita
    \/ InitialiseCarbonTax
    \/ InitialiseProjectedDamage
    \/ InitialiseClimateOpinion
    \/ InitialiseRegionScore
    \/ GetTweetData
    \/ NewMenuManager
    \/ EventGet
    \/ Loop

SpecMenu == InitMenu /\ [][NextMenu]_vars

-----------------------------------------------------------------------------
(* Properties *)

Window == FirstYear..LastYear

SeriesNames ==
    {"population", "gdp", "gdp_per_capita", "co2_emissions",
     "co2_emissions_per_capita", "renewable_energy",
     "renewable_energy_per_capita"}

(* the statement has returned *)
Past(statement) ==
    /\ pc \in {Statements[n] : n \in 1..Len(Statements)}
    /\ Position(pc) > Position(statement)

Registered(name) == name \in KeySet(regions)

RegionOf(name) == GetItem(regions, name)

(* C1: after initialise_regions and any merge and derivation passes, the   *)
(* key set of every metric series of every region is exactly 1951..2016:  *)
(* a record with a year outside the window is never stored and adds no key *)
C1_YearsInWindow ==
    \A i \in 1..Len(regions) : \A a \in SeriesNames :
        DOMAIN regions[i][2][a] = Window

OutOfWindowLines(name) ==
    {n \in 1..Len(files["co2_emissions"][name]["data"]) :
        files["co2_emissions"][name]["data"][n]["year"] \notin Window}

C1_Witness ==
    /\ pc = "done"
    /\ \E name \in DOMAIN files["co2_emissions"] :
           Registered(name) /\ OutOfWindowLines(name) # {}

(* What the files supply for the United States under a set of names *)
USNames == {"United States", "USA", US_LONG}

(* the cell of field i in the last line of the energy file that has one *)
(* under one of the names, None when there is none                      *)
LastCell(names, i) ==
    LET data == files["energy"]
        lines == {n \in (EnergyHeaderLines + 1)..Len(data) :
                     data[n][2] \in names /\ data[n][i + 1] # None}
    IN  IF lines = {} THEN None
        ELSE data[CHOOSE n \in lines : \A m \in lines : m <= n][i + 1]

(* the value of the last line of the damage file under one of the names *)
LastDamage(names) ==
    LET data == files["projected_damage"]
        lines == {n \in 2..Len(data) : data[n][1] \in names}
    IN  IF lines = {} THEN None
        ELSE LET line == data[CHOOSE n \in lines : \A m \in lines : m <= n]
             IN  line[Len(line)]

(* the value of the last in-window line of the JSON entry of a name that *)
(* has the key for the year, None when there is none                    *)
LastJson(name, key, year) ==
    LET data == IF name \in DOMAIN files["co2_emissions"]
                THEN files["co2_emissions"][name]["data"] ELSE <<>>
        lines == {n \in 1..Len(data) :
                     data[n]["year"] = year /\ key \in DOMAIN data[n]}
    IN  IF lines = {} THEN None
        ELSE data[CHOOSE n \in lines : \A m \in lines : m <= n][key]

OneUnitedStates ==
    /\ {k \in KeySet(regions) : k \in USNames} = {"United States"}
    /\ Cardinality({i \in 1..Len(regions) : regions[i][1] = "United States"}) = 1

(* C2 as claimed: in every merge pass the data supplied under "USA" and   *)
(* under "United States of America" are both written into the one entity *)
(* keyed "United States", and no second entity appears                   *)
C2_BothAliasesInEveryPass ==
    /\ Past("initialise_regions") => OneUnitedStates
    /\ Past("energy_production") =>
           \A i \in 3..19 :
               RegionOf("United States")["renewable_energy"][1997 + i]
                   = LastCell(USNames, i)
    /\ Past("initialise_projected_damage") =>
           RegionOf("United States")["projected_damage"] = LastDamage(USNames)
    /\ Past("initialise_co2_emissions") =>
           \A name \in USNames : \A y \in Window :
               LastJson(name, "co2", y) # None =>
                   RegionOf("United States")["co2_emissions"][y] # None

(* C2 as amended: each pass resolves the alias of its own source. The     *)
(* energy pass writes the data under "USA" (and "United States"), the     *)
(* projected-damage pass the data under "United States of America" (and   *)
(* "United States"), the passes over the JSON file only the data under    *)
(* "United States", all into the one entity keyed "United States"; the    *)
(* other alias is discarded, and no second entity appears                 *)
C2_AliasOfEachSource ==
    /\ Past("initialise_regions") => OneUnitedStates
    /\ Past("energy_production") =>
           \A i \in 3..19 :
               RegionOf("United States")["renewable_energy"][1997 + i]
                   = LastCell({"USA", "United States"}, i)
    /\ Past("initialise_projected_damage") =>
           RegionOf("United States")["projected_damage"]
               = LastDamage({US_LONG, "United States"})
    /\ Past("initialise_co2_emissions") =>
           \A y \in Window :
               RegionOf("United States")["co2_emissions"][y]
                   = LastJson("United States", "co2", y)
    /\ Past("initialise_gdp") =>
           \A y \in Window :
               RegionOf("United States")["gdp"][y]
                   = LastJson("United States", "gdp", y)
    /\ Past("initialise_population") =>
           \A y \in Window :
               RegionOf("United States")["population"][y]
                   = LastJson("United States", "population", y)

C2_Witness ==
    /\ pc = "done"
    /\ LastCell({"USA"}, 19) # None
    /\ LastCell({US_LONG}, 19) # None
    /\ LastDamage({US_LONG}) # None
    /\ RegionOf("United States")["renewable_energy"][LastYear] = LastCell({"USA"}, 19)
    /\ RegionOf("United States")["projected_damage"] = LastDamage({US_LONG})

(* The records of a file whose name, after the naming of its pass, is a *)
(* key of the registry                                                 *)
KnownJson ==
    [name \in DOMAIN files["co2_emissions"] \cap KeySet(regions) |->
        files["co2_emissions"][name]]

EnergyName(id) ==
    IF id = "USA" THEN "United States"
    ELSE IF id = "UK" THEN "United Kingdom" ELSE id

KnownEnergy ==
    SubSeq(files["energy"], 1, EnergyHeaderLines)
    \o SelectSeq(SubSeq(files["energy"], EnergyHeaderLines + 1, Len(files["energy"])),
                 LAMBDA line : Registered(EnergyName(line[2])))

DamageName(id) == IF id = US_LONG THEN "United States" ELSE id

KnownDamage ==
    SubSeq(files["projected_damage"], 1, 1)
    \o SelectSeq(Tail(files["projected_damage"]),
                 LAMBDA line : Registered(DamageName(line[1])))

OpinionName(id) ==
    IF id = "U.S." THEN "United States"
    ELSE IF id = "UK" THEN "United Kingdom" ELSE id

KnownOpinion ==
    SelectSeq(files["opinion"], LAMBDA line : Registered(OpinionName(line[1])))

UnknownRecords ==
    /\ KnownJson # files["co2_emissions"]
    /\ KnownEnergy # files["energy"]
    /\ KnownDamage # files["projected_damage"]
    /\ KnownOpinion # files["opinion"]

(* C3: once initialise_regions has returned no pass adds or removes a key  *)
(* of the registry, and a record whose name (after the naming of its pass) *)
(* is no key is discarded: the pass leaves the registry as it would       *)
(* without the record                                                     *)
C3_RegistryFixed ==
    [][/\ pc # "initialise_regions" => KeySeq(regions') = KeySeq(regions)
       /\ pc = "initialise_co2_emissions" =>
              regions' = initialise_co2_emissions(regions, KnownJson)
       /\ pc = "initialise_gdp" => regions' = initialise_gdp(regions, KnownJson)
       /\ pc = "initialise_population" =>
              regions' = initialise_population(regions, KnownJson)
       /\ pc = "energy_production" =>
              regions' = energy_production(regions, KnownEnergy)
       /\ pc = "initialise_projected_damage" =>
              regions' = initialise_projected_damage(regions, KnownDamage).regions
       /\ pc = "initialise_climate_opinion" =>
              regions' = initialise_climate_opinion(regions, KnownOpinion).regions
      ]_vars

C3_Witness ==
    /\ pc = "done"
    /\ "World" \in DOMAIN files["co2_emissions"]
    /\ ~Registered("World")
    /\ KnownJson # files["co2_emissions"]
    /\ KnownEnergy # files["energy"]

(* C4: a lookup of a name that is no key of the registry raises and makes *)
(* no entry: initialise_regions raises KeyError when the master list has  *)
(* no "United States of America" or no "United Kingdom of Great Britain & *)
(* Northern Ireland", initialise_carbon_tax when a country of             *)
(* COUNTRIES_WITH_CARBON_TAX is not registered, and the registry gets no  *)
(* key for the name                                                       *)
ListedCountries ==
    {files["country_names"][n][3] : n \in 2..Len(files["country_names"])}

WithoutCarbonTaxKey(regs) ==
    {COUNTRIES_WITH_CARBON_TAX[n] : n \in 1..Len(COUNTRIES_WITH_CARBON_TAX)}
        \ KeySet(regs)

C4_UnknownNameRaises ==
    [][/\ (pc = "initialise_regions" /\ {UK_LONG, US_LONG} \ ListedCountries # {}) =>
              /\ exc' = "KeyError"
              /\ pc' = pc
              /\ KeySet(regions') \cap ({UK_LONG, US_LONG} \ ListedCountries) = {}
       /\ (pc = "initialise_carbon_tax" /\ WithoutCarbonTaxKey(regions) # {}) =>
              /\ exc' = "KeyError"
              /\ pc' = pc
              /\ KeySeq(regions') = KeySeq(regions)
      ]_vars

C4_Witness ==
    /\ pc = "initialise_carbon_tax"
    /\ exc = "KeyError"
    /\ WithoutCarbonTaxKey(regions) = {"Ukraine"}

(* C5: a Region constructed with only a name has every one of its seven   *)
(* series mapping every year 1951..2016 to None (not 0), continent None,  *)
(* has_carbon_tax false, and projected_damage, percentage_concerned and   *)
(* region_score None                                                      *)
C5_DefaultRegion ==
    (pc = "returned" /\ DOMAIN args.kwargs = {}) =>
        /\ ret["name"] = args.name
        /\ \A a \in SeriesNames :
               /\ DOMAIN ret[a] = Window
               /\ \A y \in Window : ret[a][y] = None /\ ret[a][y] # Num(0)
        /\ ret["continent"] = None
        /\ ret["has_carbon_tax"] = FALSE
        /\ ret["projected_damage"] = None
        /\ ret["percentage_concerned"] = None
        /\ ret["region_score"] = None

C5_Witness ==
    /\ pc = "returned"
    /\ DOMAIN args.kwargs = {}
    /\ args.name = "Canada"
    /\ ret["name"] = "Canada"

(* The per-capita passes: the statement, its base and its derived series *)
PerCapitaPasses ==
    {<<"initialise_gdp_per_capita", "gdp", "gdp_per_capita">>,
     <<"initialise_co2_emissions_per_capita", "co2_emissions",
       "co2_emissions_per_capita">>,
     <<"initialise_renewables_per_capita", "renewable_energy",
       "renewable_energy_per_capita">>}

BothPresent(region, base, y) ==
    region[base][y] # None /\ region["population"][y] # None

(* C6: after a per-capita pass, for every region and year of 1951..2016   *)
(* the derived series holds B[y] / P[y] when B[y] and P[y] are both       *)
(* present (P[y] non-zero) and is absent when either is absent;           *)
(* population {2000: 100, 2001: 200} with emissions {2000: 50} gives      *)
(* {2000: 0.5} and 2001 absent                                            *)
C6_PerCapita ==
    \A p \in PerCapitaPasses :
        Past(p[1]) =>
            \A i \in 1..Len(regions) : \A y \in Window :
                LET region == regions[i][2]
                IN  /\ (BothPresent(region, p[2], y)
                        /\ ~IsZero(region["population"][y])) =>
                           /\ region[p[3]][y] # None
                           /\ region[p[3]][y][1] * region["population"][y][1]
                                  * region[p[2]][y][2]
                              = region[p[2]][y][1] * region["population"][y][2]
                                  * region[p[3]][y][2]
                    /\ ~BothPresent(region, p[2], y) => region[p[3]][y] = None
                    /\ (/\ p[2] = "co2_emissions"
                        /\ y = 2000
                        /\ region["population"][2000] = Num(100)
                        /\ region["population"][2001] = Num(200)
                        /\ region["co2_emissions"][2000] = Num(50)
                        /\ region["co2_emissions"][2001] = None) =>
                           /\ region[p[3]][2000] = <<1, 2>>
                           /\ region[p[3]][2001] = None

C6_Witness ==
    /\ pc = "done"
    /\ Registered("India")
    /\ RegionOf("India")["population"][2000] = Num(100)
    /\ RegionOf("India")["population"][2001] = Num(200)
    /\ RegionOf("India")["co2_emissions"][2000] = Num(50)
    /\ RegionOf("India")["co2_emissions"][2001] = None
    /\ RegionOf("India")["co2_emissions_per_capita"][2000] = <<1, 2>>
    /\ RegionOf("India")["gdp_per_capita"][LastYear] = Num(1)

(* C7 as claimed: when a population is present but zero and the base      *)
(* value of that year is present, the per-capita pass raises nothing: the *)
(* derived entry of that year stays absent and the other entries are      *)
(* computed                                                               *)
C7_ZeroPopulationLeftAbsent ==
    \A p \in PerCapitaPasses :
        /\ pc = p[1] => exc = ""
        /\ Past(p[1]) =>
               \A i \in 1..Len(regions) : \A y \in Window :
                   LET region == regions[i][2]
                   IN  IF BothPresent(region, p[2], y)
                          /\ ~IsZero(region["population"][y])
                       THEN region[p[3]][y] # None
                       ELSE region[p[3]][y] = None

(* C8: after initialise_region_score, a region whose renewable_energy[2016] *)
(* and co2_emissions[2016] are both present (emissions non-zero) has       *)
(* region_score = renewable / emissions, times 10 exactly when it has a    *)
(* carbon tax (10, 5 and a carbon tax give 20); when either is absent      *)
(* region_score stays absent and nothing is raised for it                  *)
C8_RegionScore ==
    /\ Past("initialise_region_score") =>
           \A i \in 1..Len(regions) :
               LET region == regions[i][2]
                   renewable == region["renewable_energy"][LastYear]
                   emission == region["co2_emissions"][LastYear]
                   factor == IF region["has_carbon_tax"] THEN 10 ELSE 1
               IN  /\ (renewable # None /\ emission # None /\ ~IsZero(emission)) =>
                          /\ region["region_score"] # None
                          /\ region["region_score"][1] * emission[1] * renewable[2]
                             = factor * renewable[1] * emission[2]
                                 * region["region_score"][2]
                   /\ (renewable = None \/ emission = None) =>
                          region["region_score"] = None
                   /\ (renewable = Num(10) /\ emission = Num(5)
                       /\ region["has_carbon_tax"]) =>
                          region["region_score"] = Num(20)
    /\ (pc = "initialise_region_score" /\ exc # "") =>
           \E i \in 1..Len(regions) :
               /\ regions[i][2]["renewable_energy"][LastYear] # None
               /\ regions[i][2]["co2_emissions"][LastYear] # None
               /\ IsZero(regions[i][2]["co2_emissions"][LastYear])

C8_Witness ==
    /\ pc = "done"
    /\ RegionOf("Canada")["renewable_energy"][LastYear] = Num(10)
    /\ RegionOf("Canada")["co2_emissions"][LastYear] = Num(5)
    /\ RegionOf("Canada")["has_carbon_tax"]
    /\ RegionOf("Canada")["region_score"] = Num(20)
    /\ RegionOf("China")["region_score"] = <<1, 2>>
    /\ RegionOf("Ukraine")["region_score"] = None

(* C9 as claimed: when co2_emissions[2016] of a region is present and zero *)
(* and its renewable_energy[2016] is present, initialise_region_score      *)
(* raises nothing, leaves the region_score of that region absent and       *)
(* scores the other regions                                                *)
C9_ZeroEmissionsLeftAbsent ==
    /\ pc = "initialise_region_score" => exc = ""
    /\ Past("initialise_region_score") =>
           \A i \in 1..Len(regions) :
               LET region == regions[i][2]
                   renewable == region["renewable_energy"][LastYear]
                   emission == region["co2_emissions"][LastYear]
               IN  IF renewable # None /\ emission # None /\ ~IsZero(emission)
                   THEN region["region_score"] # None
                   ELSE region["region_score"] = None

(* The rankings: the scores a ranking reads, and what it returned *)
RankedValue(call, region) ==
    IF call = "largest_co2" THEN region["co2_emissions"][LastYear]
    ELSE region["region_score"]

Candidates(call) ==
    {regions[i][1] : i \in {i \in 1..Len(regions) :
                               RankedValue(call, regions[i][2]) # None}}

ReturnedNames == {ret[j][1] : j \in {j \in 1..Len(ret) : ret[j] # None}}

ValueOf(call, name) == RankedValue(call, RegionOf(name))

(* C10 as claimed: the ranking returns names in non-increasing order of    *)
(* score, and the names are exactly the K = 10 highest-scoring regions     *)
(* among those whose score is present (all of them when fewer than K): a   *)
(* region with an absent score is never returned and one with a score of   *)
(* zero or below is still a candidate                                      *)
C10_TopKOfPresentScores ==
    (pc = "done" /\ args # <<>>) =>
        LET call == args[1]
        IN  /\ ReturnedNames \subseteq Candidates(call)
            /\ \A j, k \in 1..Len(ret) :
                   (j < k /\ ret[j] # None /\ ret[k] # None) =>
                       ~Less(ValueOf(call, ret[j][1]), ValueOf(call, ret[k][1]))
            /\ Cardinality(ReturnedNames)
                   = (IF Cardinality(Candidates(call)) < TopK
                      THEN Cardinality(Candidates(call)) ELSE TopK)
            /\ \A r \in ReturnedNames : \A c \in Candidates(call) \ ReturnedNames :
                   ~Less(ValueOf(call, r), ValueOf(call, c))

(* C11: ties of a ranking are resolved by the order of the registry: of two *)
(* returned regions with equal scores the one visited earlier comes first,  *)
(* and of two candidates with equal scores the later one is never returned  *)
(* without the earlier one (a tie for the last slot keeps the earlier one)  *)
C11_TiesKeepRegistryOrder ==
    (pc = "done" /\ args # <<>>) =>
        LET call == args[1]
        IN  /\ \A j, k \in 1..Len(ret) :
                   (/\ j < k /\ ret[j] # None /\ ret[k] # None
                    /\ ValueOf(call, ret[j][1]) = ValueOf(call, ret[k][1])) =>
                       IndexOf(regions, ret[j][1]) < IndexOf(regions, ret[k][1])
            /\ \A a, b \in Candidates(call) :
                   (/\ ValueOf(call, a) = ValueOf(call, b)
                    /\ IndexOf(regions, a) < IndexOf(regions, b)
                    /\ b \in ReturnedNames) => a \in ReturnedNames

C11_Witness ==
    /\ pc = "done"
    /\ args = <<"largest_co2">>
    /\ \E j \in 1..(TopK - 1) : ret[j] = Str("Canada") /\ ret[j + 1] = Str("Mexico")
    /\ ValueOf("largest_co2", "Canada") = ValueOf("largest_co2", "Mexico")
    /\ ret[TopK] = Str("Chile")
    /\ "Norway" \notin ReturnedNames
    /\ ValueOf("largest_co2", "Chile") = ValueOf("largest_co2", "Norway")

(* C12 as claimed: what a ranking returns has no placeholder: every element *)
(* is a key of the registry, and when fewer than K = 10 regions have a      *)
(* present score the result has fewer than K elements                       *)
C12_NoPlaceholder ==
    (pc = "done" /\ args # <<>>) =>
        /\ \A j \in 1..Len(ret) : ret[j] # None /\ Registered(ret[j][1])
        /\ Cardinality(Candidates(args[1])) < TopK =>
               Len(ret) = Cardinality(Candidates(args[1]))

(* The regression: the line a sample lies on, and the values the methods *)
(* would compute without rounding                                        *)
DistinctX(x_values) ==
    {p \in (1..Len(x_values)) \X (1..Len(x_values)) :
        x_values[p[1]] # x_values[p[2]]}

(* <<a, b>> of the line y = a * x + b through two points of distinct x *)
LineOf(x_values, y_values) ==
    LET p == CHOOSE p \in DistinctX(x_values) : TRUE
        a == Div(Sub(y_values[p[2]], y_values[p[1]]),
                 Sub(x_values[p[2]], x_values[p[1]]))
    IN  <<a, Sub(y_values[p[1]], Mul(a, x_values[p[1]]))>>

OnLine(x_values, y_values) ==
    /\ DistinctX(x_values) # {}
    /\ ~IsZero(LineOf(x_values, y_values)[1])
    /\ \A i \in 1..Len(x_values) :
           y_values[i] = Add(Mul(LineOf(x_values, y_values)[1], x_values[i]),
                             LineOf(x_values, y_values)[2])

RECURSIVE ExactSum(_, _)
ExactSum(values, n) ==
    IF n = 0 THEN Num(0) ELSE Add(ExactSum(values, n - 1), values[n])

ExactMean(values) == Div(ExactSum(values, Len(values)), Num(Len(values)))

(* the values linear_regression and then strength_of_correlation compute *)
(* for a sample on the line <<a, b>> when no operation rounds            *)
ExactValues(x_values, y_values) ==
    LET n == Len(x_values)
        line == LineOf(x_values, y_values)
        x_mean == ExactMean(x_values)
        y_mean == ExactMean(y_values)
        dx == [i \in 1..n |-> Sub(x_values[i], x_mean)]
        dy == [i \in 1..n |-> Sub(y_values[i], y_mean)]
        xy == [i \in 1..n |-> Mul(dx[i], dy[i])]
        xx == [i \in 1..n |-> Mul(dx[i], dx[i])]
        yy == [i \in 1..n |-> Mul(dy[i], dy[i])]
    IN  {ExactSum(x_values, i) : i \in 1..n}
        \cup {ExactSum(y_values, i) : i \in 1..n}
        \cup {x_mean, y_mean, line[1], line[2], Mul(line[1], x_mean)}
        \cup {dx[i] : i \in 1..n} \cup {dy[i] : i \in 1..n}
        \cup {xy[i] : i \in 1..n} \cup {ExactSum(xy, i) : i \in 1..n}
        \cup {xx[i] : i \in 1..n} \cup {ExactSum(xx, i) : i \in 1..n}
        \cup {yy[i] : i \in 1..n} \cup {ExactSum(yy, i) : i \in 1..n}
        \cup {Mul(line[1], x_values[i]) : i \in 1..n}

Representable(q) == Float(q) = q

NothingRounds(x_values, y_values) ==
    \A q \in ExactValues(x_values, y_values) : Representable(q)

Example ==
    [x_values |-> <<Num(1), Num(2), Num(3)>>,
     y_values |-> <<Num(2), Num(4), Num(6)>>]

IsCall(call) == ret # <<>> /\ ret.call = call

(* C13 as claimed: for every sample on a line y = a * x + b with a # 0 and *)
(* two distinct x, linear_regression returns (a, b) and                    *)
(* strength_of_correlation on that result returns 1                        *)
C13_ExactOnEveryLine ==
    OnLine(args.x_values, args.y_values) =>
        /\ IsCall("linear_regression") =>
               ret.result = Value(LineOf(args.x_values, args.y_values))
        /\ (/\ IsCall("strength_of_correlation")
            /\ Value(<<ret.slope, ret.intercept>>)
                   = linear_regression(args.x_values, args.y_values)) =>
               ret.result = Value(Num(1))

(* C13 as amended: for a sample on a line y = a * x + b with a # 0 and two  *)
(* distinct x, linear_regression returns (a, b) and strength_of_correlation *)
(* on that result returns 1 whenever every intermediate value of the        *)
(* computation is a float, so that no operation rounds; (1,2),(2,4),(3,6)   *)
(* is such a sample and gives slope 2, intercept 0 and R^2 1. Otherwise the *)
(* results are those of the rounded operations                              *)
C13_ExactWhenNothingRounds ==
    /\ (OnLine(args.x_values, args.y_values)
        /\ NothingRounds(args.x_values, args.y_values)) =>
           /\ IsCall("linear_regression") =>
                  ret.result = Value(LineOf(args.x_values, args.y_values))
           /\ (/\ IsCall("strength_of_correlation")
               /\ <<ret.slope, ret.intercept>>
                      = LineOf(args.x_values, args.y_values)) =>
                  ret.result = Value(Num(1))
    /\ args = Example =>
           /\ IsCall("linear_regression") =>
                  ret.result = Value(<<Num(2), Num(0)>>)
           /\ (/\ IsCall("strength_of_correlation")
               /\ ret.slope = Num(2) /\ ret.intercept = Num(0)) =>
                  ret.result = Value(Num(1))

C13_Witness ==
    /\ args = Example
    /\ OnLine(args.x_values, args.y_values)
    /\ NothingRounds(args.x_values, args.y_values)
    /\ IsCall("strength_of_correlation")
    /\ Value(<<ret.slope, ret.intercept>>)
           = linear_regression(args.x_values, args.y_values)
    /\ ret.slope = Num(2)
    /\ ret.intercept = Num(0)
    /\ ret.result = Value(Num(1))

AllEqual(values) == \A i, j \in 1..Len(values) : values[i] = values[j]

(* the exception linear_regression raises for a sample of one point, whose *)
(* x values have no variance                                               *)
DegenerateInput == linear_regression(<<Num(2)>>, <<Num(4)>>).exc

C15_EqualXRaises ==
    (/\ IsCall("linear_regression")
     /\ Len(args.x_values) > 0
     /\ AllEqual(args.x_values)) =>
        /\ ret.result.exc # ""
        /\ ret.result.value = None

(* C16 as claimed: strength_of_correlation on a sample whose y values are *)
(* all equal fails and returns no R^2, whatever the slope and intercept   *)
C16_EqualYRaises ==
    (IsCall("strength_of_correlation") /\ AllEqual(args.y_values)) =>
        /\ ret.result.exc # ""
        /\ ret.result.value = None

EnergySources(key) == {id \in {key, "USA", "UK"} : EnergyName(id) = key}

DamageSources(key) == {id \in {key, US_LONG} : DamageName(id) = key}

OpinionSources(key) == {id \in {key, "U.S.", "UK"} : OpinionName(id) = key}

(* the percentage of the last line of the opinion file under one of the names *)
LastOpinion(names) ==
    LET data == files["opinion"]
        lines == {n \in 1..Len(data) : data[n][1] \in names}
    IN  IF lines = {} THEN None
        ELSE data[CHOOSE n \in lines : \A m \in lines : m <= n][2]

JsonPasses ==
    {<<"initialise_co2_emissions", "co2", "co2_emissions">>,
     <<"initialise_gdp", "gdp", "gdp">>,
     <<"initialise_population", "population", "population">>}

(* C18: merging is last-write-wins per (region, metric, year): once a pass  *)
(* has returned, and from then on, the stored value is the value of the     *)
(* last record of its source that supplies one for the region (under any    *)
(* name the pass resolves to it), the metric and the year, and is absent    *)
(* when no record does                                                      *)
C18_LastWriteWins ==
    \A i \in 1..Len(regions) :
        LET key == regions[i][1]
            region == regions[i][2]
        IN  /\ \A p \in JsonPasses :
                   Past(p[1]) =>
                       \A y \in Window : region[p[3]][y] = LastJson(key, p[2], y)
            /\ Past("energy_production") =>
                   \A y \in Window :
                       region["renewable_energy"][y] =
                           (IF y - 1997 \in 3..19
                            THEN LastCell(EnergySources(key), y - 1997)
                            ELSE None)
            /\ Past("initialise_projected_damage") =>
                   region["projected_damage"] = LastDamage(DamageSources(key))
            /\ Past("initialise_climate_opinion") =>
                   region["percentage_concerned"] = LastOpinion(OpinionSources(key))

C18_Witness ==
    /\ pc = "done"
    /\ \E n, m \in (EnergyHeaderLines + 1)..Len(files["energy"]) :
           /\ n < m
           /\ files["energy"][n][2] = "USA"
           /\ files["energy"][m][2] = "United States"
           /\ files["energy"][n][20] # None
           /\ files["energy"][m][20] # None
           /\ files["energy"][n][20] # files["energy"][m][20]
           /\ m = Len(files["energy"])
           /\ RegionOf("United States")["renewable_energy"][LastYear]
                  = files["energy"][m][20]

(* C19: a merge pass for one metric changes only the series of that metric *)
(* and only at the years for which its source supplies a value for the     *)
(* region (a blank cell of the energy file supplies none): the other       *)
(* entries of the series, every other series, every scalar attribute, the  *)
(* keys and the tweets are left as they were                               *)
OnlySeriesChanged(attr) ==
    /\ KeySeq(regions') = KeySeq(regions)
    /\ tweets' = tweets
    /\ \A i \in 1..Len(regions) :
           \A f \in DOMAIN regions[i][2] \ {attr} :
               regions'[i][2][f] = regions[i][2][f]

C19_MergeFrame ==
    [][/\ \A p \in JsonPasses :
              pc = p[1] =>
                  /\ OnlySeriesChanged(p[3])
                  /\ \A i \in 1..Len(regions) : \A y \in Window :
                         LastJson(regions[i][1], p[2], y) = None =>
                             regions'[i][2][p[3]][y] = regions[i][2][p[3]][y]
       /\ pc = "energy_production" =>
              /\ OnlySeriesChanged("renewable_energy")
              /\ \A i \in 1..Len(regions) : \A y \in Window :
                     (\/ y - 1997 \notin 3..19
                      \/ LastCell(EnergySources(regions[i][1]), y - 1997) = None) =>
                         regions'[i][2]["renewable_energy"][y]
                             = regions[i][2]["renewable_energy"][y]
      ]_vars

C19_Witness ==
    /\ pc = "done"
    /\ LastCell({"USA"}, 3) # None
    /\ LastCell({"USA"}, 19) # None
    /\ \A i \in 4..18 : LastCell({"USA", "United States"}, i) = None
    /\ RegionOf("United States")["renewable_energy"][2000] = LastCell({"USA"}, 3)
    /\ \A y \in 2001..2015 : RegionOf("United States")["renewable_energy"][y] = None
    /\ RegionOf("United States")["co2_emissions"][LastYear] # None
    /\ RegionOf("United States")["co2_emissions"][LastYear - 1] = None

(* C20: once initialise_carbon_tax has returned, has_carbon_tax of a region *)
(* is true exactly when its key is in COUNTRIES_WITH_CARBON_TAX; the pass   *)
(* writes no other attribute, and no other pass changes has_carbon_tax      *)
CarbonTaxCountries ==
    {COUNTRIES_WITH_CARBON_TAX[n] : n \in 1..Len(COUNTRIES_WITH_CARBON_TAX)}

C20_CarbonTaxFlag ==
    /\ [](Past("initialise_carbon_tax") =>
              \A i \in 1..Len(regions) :
                  regions[i][2]["has_carbon_tax"]
                      = (regions[i][1] \in CarbonTaxCountries))
    /\ [][/\ pc = "initialise_carbon_tax" =>
                 /\ KeySeq(regions') = KeySeq(regions)
                 /\ tweets' = tweets
                 /\ \A i \in 1..Len(regions) :
                        \A f \in DOMAIN regions[i][2] \ {"has_carbon_tax"} :
                            regions'[i][2][f] = regions[i][2][f]
          /\ pc \notin {"initialise_regions", "initialise_carbon_tax"} =>
                 \A i \in 1..Len(regions) :
                     regions'[i][2]["has_carbon_tax"]
                         = regions[i][2]["has_carbon_tax"]
         ]_vars

C20_Witness ==
    /\ pc = "done"
    /\ RegionOf("Canada")["has_carbon_tax"]
    /\ RegionOf("United Kingdom")["has_carbon_tax"]
    /\ ~RegionOf("China")["has_carbon_tax"]
    /\ ~RegionOf("United States")["has_carbon_tax"]

(* The derivation passes and the attributes each reads, and the merge pass *)
(* that writes each of these attributes                                    *)
DerivationPasses ==
    {<<"initialise_gdp_per_capita", {"gdp", "population"}>>,
     <<"initialise_co2_emissions_per_capita", {"co2_emissions", "population"}>>,
     <<"initialise_renewables_per_capita", {"renewable_energy", "population"}>>,
     <<"initialise_region_score",
       {"renewable_energy", "co2_emissions", "has_carbon_tax"}>>}

WriterOf(attr) ==
    CASE attr = "gdp" -> "initialise_gdp"
      [] attr = "co2_emissions" -> "initialise_co2_emissions"
      [] attr = "population" -> "initialise_population"
      [] attr = "renewable_energy" -> "energy_production"
      [] attr = "has_carbon_tax" -> "initialise_carbon_tax"

Changes(attr) ==
    \/ Len(regions') # Len(regions)
    \/ \E i \in 1..Len(regions) : regions'[i][2][attr] # regions[i][2][attr]

(* C21: the construction derives after it has ingested: a per-capita pass  *)
(* starts only when the merge passes of its base series and of the         *)
(* population have returned, the score pass only when the renewable-energy *)
(* merge, the CO2 merge and the carbon-tax pass have returned, and from    *)
(* the moment a derivation pass starts no step writes a series it reads    *)
C21_IngestBeforeDerive ==
    [][\A d \in DerivationPasses : \A attr \in d[2] :
           /\ pc = d[1] => Past(WriterOf(attr))
           /\ (pc = d[1] \/ Past(d[1])) => ~Changes(attr)
      ]_vars

C21_Witness ==
    /\ pc = "done"
    /\ exc = ""
    /\ RegionOf("Canada")["gdp_per_capita"][LastYear] = Num(10)
    /\ RegionOf("Canada")["co2_emissions_per_capita"][LastYear] = <<5, 4>>
    /\ RegionOf("Canada")["renewable_energy_per_capita"][LastYear] = <<5, 2>>
    /\ RegionOf("Canada")["region_score"] = Num(20)

(* C22: a derivation pass (the three per-capita passes and the score pass) *)
(* leaves population, gdp, co2_emissions and renewable_energy of every     *)
(* region as they were: it writes its own derived series, or region_score, *)
(* and nothing else                                                        *)
BaseSeries == {"population", "gdp", "co2_emissions", "renewable_energy"}

C22_DerivationFrame ==
    [][/\ \A p \in PerCapitaPasses :
              pc = p[1] =>
                  /\ OnlySeriesChanged(p[3])
                  /\ \A i \in 1..Len(regions) : \A b \in BaseSeries :
                         regions'[i][2][b] = regions[i][2][b]
       /\ pc = "initialise_region_score" =>
              /\ OnlySeriesChanged("region_score")
              /\ \A i \in 1..Len(regions) : \A b \in BaseSeries :
                     regions'[i][2][b] = regions[i][2][b]
      ]_vars

C22_Witness ==
    /\ pc = "done"
    /\ RegionOf("India")["gdp"][LastYear] = Num(30)
    /\ RegionOf("India")["population"][LastYear] = Num(30)
    /\ RegionOf("India")["gdp_per_capita"][LastYear] = Num(1)
    /\ RegionOf("India")["co2_emissions"][2000] = Num(50)
    /\ RegionOf("India")["co2_emissions_per_capita"][2000] = <<1, 2>>
    /\ RegionOf("India")["renewable_energy"][LastYear] = Num(3)
    /\ RegionOf("India")["region_score"] = <<1, 3>>

(* C27 as claimed: once initialise_regions has returned, and after every   *)
(* later pass, every key of the registry equals the name attribute of the  *)
(* Region it maps to, the entries re-keyed to "United States" and "United  *)
(* Kingdom" included                                                       *)
C27_KeyIsName ==
    Past("initialise_regions") =>
        \A i \in 1..Len(regions) : regions[i][2]["name"] = regions[i][1]

(* Properties of the Plots and FinalReport calls *)

(* the call made on the constructed registry *)
Calls(call) == pc = "done" /\ args # None /\ args.call = call

(* the sum of the values at the places S *)
RECURSIVE SumOf(_, _)
SumOf(values, S) ==
    IF S = {} THEN Num(0)
    ELSE LET n == CHOOSE n \in S : TRUE
         IN  Plus(SumOf(values, S \ {n}), values[n])

(* the mean of the values that are present *)
MeanOfPresent(values) ==
    Div(SumOf(values, {n \in DOMAIN values : values[n] # None}),
        Num(Cardinality({n \in DOMAIN values : values[n] # None})))

(* what the regions hold of a series in a year *)
InYear(regs, var, year) == [n \in 1..Len(regs) |-> regs[n][2][var][year]]

AnyPresent(values) == \E n \in DOMAIN values : values[n] # None

AnyAbsent(values) == \E n \in DOMAIN values : values[n] = None

(* C24: average_all_regions_over_time gives, for every year, the sum of the *)
(* present values divided by the number of regions with a present value,   *)
(* and no value (not 0) for a year in which no region has one               *)
C24_AverageOfPresent ==
    Calls("average_all_regions_over_time") =>
        \A year \in FirstYear..LastYear :
            IF AnyPresent(InYear(regions, args.y_var, year))
            THEN ret[year] = MeanOfPresent(InYear(regions, args.y_var, year))
            ELSE ret[year] = None

(* an average with a year in which some regions have a value and some have *)
(* not, and a year in which none has                                       *)
C24_Witness ==
    /\ Calls("average_all_regions_over_time")
    /\ \E year \in FirstYear..LastYear :
           /\ AnyPresent(InYear(regions, args.y_var, year))
           /\ AnyAbsent(InYear(regions, args.y_var, year))
           /\ ret[year] # None
           /\ ~IsZero(ret[year])
    /\ \E year \in FirstYear..LastYear :
           /\ ~AnyPresent(InYear(regions, args.y_var, year))
           /\ ret[year] = None

(* the values the two averages of the report read of the listed regions *)
ListedValues(regs, names, attr) ==
    [n \in 1..Len(names) |->
        IF attr = "gdp" THEN GetItem(regs, names[n][1])["gdp"][LastYear]
        ELSE GetItem(regs, names[n][1])[attr]]

AllListed(names) == \A n \in 1..Len(names) : names[n] # None

(* the text of the mean over the present values, when there is one *)
ShowsMean(outcome, values, digits) ==
    /\ outcome.exc = ""
    /\ AnyPresent(values) =>
           outcome.value = IF digits = 0 THEN StrInt(Round(MeanOfPresent(values)))
                           ELSE StrRound3(MeanOfPresent(values))

(* C25: average_gdp_contributing_regions and average_damage_helping_regions *)
(* return the mean over the listed regions whose value is present, and      *)
(* neither fails because a listed region's value is absent                  *)
C25_MeanOverPresent ==
    /\ (Calls("average_gdp_contributing_regions") /\ AllListed(largest_co2(regions)))
           => ShowsMean(ret, ListedValues(regions, largest_co2(regions), "gdp"), 0)
    /\ (Calls("average_damage_helping_regions") /\ AllListed(greatest_help(regions)))
           => ShowsMean(ret, ListedValues(regions, greatest_help(regions),
                                          "projected_damage"), 3)

(* the years, and the regions, where both values are present *)
KeptYears(x_values, y_values) ==
    {year \in FirstYear..LastYear : x_values[year] # None /\ y_values[year] # None}

KeptRegions(regs, x_var, y_var) ==
    {n \in 1..Len(regs) : /\ regs[n][2][x_var][LastYear] # None
                          /\ regs[n][2][y_var][LastYear] # None}

(* the place of a kept item in the lists *)
Place(kept, item) == Cardinality({k \in kept : k <= item})

AlignedByYear(x_values, y_values, result) ==
    /\ Len(result.x_values) = Cardinality(KeptYears(x_values, y_values))
    /\ Len(result.y_values) = Len(result.x_values)
    /\ \A year \in KeptYears(x_values, y_values) :
           /\ result.x_values[Place(KeptYears(x_values, y_values), year)]
                  = x_values[year]
           /\ result.y_values[Place(KeptYears(x_values, y_values), year)]
                  = y_values[year]

AlignedByRegion(regs, x_var, y_var, result) ==
    /\ Len(result.x_values) = Cardinality(KeptRegions(regs, x_var, y_var))
    /\ Len(result.y_values) = Len(result.x_values)
    /\ \A n \in KeptRegions(regs, x_var, y_var) :
           /\ result.x_values[Place(KeptRegions(regs, x_var, y_var), n)]
                  = regs[n][2][x_var][LastYear]
           /\ result.y_values[Place(KeptRegions(regs, x_var, y_var), n)]
                  = regs[n][2][y_var][LastYear]

(* the two series a call of clean_time_data was given *)
CleanedX == XValues(GetItem(regions, args.region), args.x_var)

CleanedY == GetItem(regions, args.region)[args.y_var]

(* C26: clean_time_data and final_over_all_regions return two lists of     *)
(* equal length, holding exactly the pairs whose x and y are both present, *)
(* the i-th items from the same year (the same region), in ascending year  *)
(* order (registry order), and leave the registry they read unchanged      *)
C26_AlignedPairs ==
    [][(pc = "done" /\ args = None /\ args' # None) =>
           /\ regions' = regions
           /\ args'.call = "clean_time_data" =>
                  AlignedByYear(XValues(GetItem(regions, args'.region), args'.x_var),
                                GetItem(regions, args'.region)[args'.y_var], ret')
           /\ args'.call = "final_over_all_regions" =>
                  AlignedByRegion(regions, args'.x_var, args'.y_var, ret')]_vars

(* a cleaning that kept several years, the last one among them, and left *)
(* out a year where only x is present                                    *)
C26_Witness ==
    /\ Calls("clean_time_data")
    /\ args.x_var # "time"
    /\ Len(ret.x_values) >= 2
    /\ LastYear \in KeptYears(CleanedX, CleanedY)
    /\ \E year \in FirstYear..LastYear :
           CleanedX[year] # None /\ CleanedY[year] = None
    /\ AlignedByYear(CleanedX, CleanedY, ret)

(* the sample an entry point of Plots hands to linear_plot *)
PlotCalls == {"in_region_over_time", "in_region", "all_regions_over_time", "all_regions"}

SampleOf ==
    CASE args.call = "in_region_over_time" ->
             clean_time_data(YearValues, GetItem(regions, args.region)[args.y_var])
      [] args.call = "in_region" ->
             clean_time_data(GetItem(regions, args.region)[args.x_var],
                             GetItem(regions, args.region)[args.y_var])
      [] args.call = "all_regions_over_time" ->
             clean_time_data(YearValues,
                             average_all_regions_over_time(regions, args.y_var))
      [] args.call = "all_regions" ->
             final_over_all_regions(regions, args.x_var, args.y_var)

(* C28: an entry point of Plots whose cleaned sample has no points returns *)
(* without calling the regression and without error                        *)
C28_OnlyNonEmptySamples ==
    (pc = "done" /\ args # None /\ args.call \in PlotCalls
        /\ Len(SampleOf.x_values) = 0) => ret = Value(None)

(* C23: once the construction of the DataSet has finished, no step of the  *)
(* program (the labels of the final report computed when the MenuManager   *)
(* is built, the correlation reports, the plots, the menu callbacks)       *)
(* changes the registry: its keys, their order and every attribute of      *)
(* every region stay as they were.                                         *)
C23_RegistryReadOnly ==
    [][(pc \in {"done", "main", "loop", "exit"}) => (regions' = regions)]_vars

(* a figure of the registry has been shown while a region is chosen and *)
(* its menu has been built                                              *)
C23_Witness ==
    /\ pc = "main"
    /\ ret # None
    /\ ret.shown # <<>>
    /\ menus.region_menu # None
    /\ menus.chose_local[1]
    /\ Len(regions) > 0

(* C29: from the construction of the MenuManager on, the region named by   *)
(* chose_local is a key of the registry; a call of loop that runs only     *)
(* change_location leaves everything but the local/global flag as it was,  *)
(* one that runs only choose_region leaves everything but the region name  *)
(* as it was and the new name is the one of the region menu; no call of    *)
(* loop ends in the KeyError of a lookup of an unknown region.             *)
C29_ChosenRegionRegistered ==
    [][/\ menus' # None => menus'.chose_local[2] \in KeySet(regions')
       /\ (pc = "loop" /\ ret'.ran = <<"change_location">>) =>
              menus' = [menus EXCEPT !.chose_local =
                           <<menus'.chose_local[1], menus.chose_local[2]>>]
       /\ (pc = "loop" /\ ret'.ran = <<"choose_region">>) =>
              /\ menus' = [menus EXCEPT !.chose_local =
                              <<menus.chose_local[1], menus'.chose_local[2]>>]
              /\ menus'.chose_local[2] = menus.region_menu.title
       /\ pc = "loop" => exc' # "KeyError"]_vars

(* a region other than the default one was chosen and its local plot shown *)
C29_Witness ==
    /\ pc = "main"
    /\ ret # None
    /\ ret.shown = <<"create_plot">>
    /\ menus.chose_local = <<TRUE, "United States">>

(* the calls of create_region_menu and quit_region_menu among the callbacks *)
RegionMenuCalls(ran) ==
    SelectSeq(ran, LAMBDA callback :
                       callback \in {"create_region_menu", "quit_region_menu"})

(* what the most recent of them says, or the flag before when there is none *)
LastSays(calls, before) ==
    IF Len(calls) = 0 THEN before
    ELSE calls[Len(calls)] = "create_region_menu"

QuitAt(evs) == {n \in 1..Len(evs) : evs[n].type = "QUIT"}

(* C30: the MenuManager is built with is_at_region_menu false; after a     *)
(* call of loop the flag is true exactly when the most recent of the       *)
(* create_region_menu and quit_region_menu callbacks run so far was        *)
(* create_region_menu; when it is true region_menu exists, so no update is *)
(* sent to a missing region menu; loop returns True only if its events     *)
(* hold a QUIT, always does when they hold one and no callback raised      *)
(* before it, and main leaves its loop exactly then.                       *)
C30_RegionMenuFlag ==
    [][/\ (pc = "done" /\ menus' # None) => ~menus'.is_at_region_menu
       /\ pc = "loop" =>
              /\ menus'.is_at_region_menu =
                     LastSays(RegionMenuCalls(ret'.ran), menus.is_at_region_menu)
              /\ menus'.is_at_region_menu => menus'.region_menu # None
              /\ exc' # "AttributeError"
              /\ ret'.value = <<TRUE>> => QuitAt(events) # {}
              /\ (QuitAt(events) # {} /\ exc' = "") => ret'.value = <<TRUE>>
              /\ pc' = "exit" <=> ret'.value = <<TRUE>>]_vars

(* one call of loop opened the region menu and closed it again *)
C30_Witness ==
    /\ pc = "main"
    /\ ret # None
    /\ ret.ran = <<"create_region_menu", "quit_region_menu">>
    /\ ~menus.is_at_region_menu
    /\ menus.region_menu # None


====
